---- MODULE Spec2Model ----
(***************************************************************************)
(* Safe Travel App backend: the SOS monitoring job (sosMonitoringJob.js,   *)
(* autoSOSService.js) and the trip monitoring service                      *)
(* (tripMonitoringService.js, TripEvent.js, routes/tripEvents.js).         *)
(* Time is counted in minutes.  Every await of the source is a point where *)
(* another handler may run, so a scan cycle is a process with a position.  *)
(***************************************************************************)
EXTENDS Integers, Sequences, FiniteSets, TLC

\* ------------------------------------------------------------------ bounds
MaxTime == 120          \* the clock stops advancing here
TimeStep == 30          \* the clock advances by at most this much per step
MaxProcs == 2           \* async invocations that can be in flight at once
MaxManual == 2          \* manual SOS triggers accepted in one run
MaxOrphans == 1         \* cron tasks overwritten in the jobs map but still scheduled
MaxTripTime == 40       \* the clock of the trip scenarios stops advancing here
TripStep == 10          \* minutes between two instants of the trip scenarios
MaxTripProcs == 2       \* checkActiveTrips invocations that can be in flight at once
MaxTripOps == 2         \* PATCH / DELETE requests accepted in one run
MaxOverlap == 1         \* cycles in flight when a tick arrives, where ticks are spaced
MaxCleanupTime == 2880  \* the clock of the cleanup scenario stops advancing here
CleanupStep == 720      \* minutes between two instants of the cleanup scenario
MaxRetentionTime == 64800  \* the clock of the archive scenario stops advancing here
RetentionStep == 21600  \* minutes between two instants of the archive scenario
MaxCancels == 2         \* cancel requests accepted in one run
MaxOtpSends == 2        \* OTPs issued in one run
MaxVerifies == 4        \* verify requests received in one run
MaxOtpTime == 6         \* the clock of the OTP scenario stops advancing here
OtpStep == 6            \* minutes between two instants of the OTP scenario
MaxStoredAlerts == 2    \* a query of the scan fails only while fewer alerts than this are stored

\* ------------------------------------------------------- program constants
CoolDownMinutes == 60   \* setTimeout(..., 60 * 60 * 1000)
ThirtyMinutes == 30     \* thirtyMinutesAgo in findTripsNeedingLocationCheck
TwentyFourHours == 1440 \* twentyFourHoursAgo in performCleanup
ThirtyDays == 43200     \* thirtyDaysAgo in cleanupOldTrips
OtpLifetime == 5        \* expiresAt = Date.now() + 5 * 60 * 1000
ResendAfter == 4        \* resend is refused while more than 240 seconds remain
MaxAttempts == 3        \* otpRecord.attempts >= 3 ends the OTP
DefaultLocationTimeoutMinutes == 30   \* alertThresholds?.locationTimeoutMinutes || 30
DefaultDestinationToleranceMeters == 500   \* alertThresholds?.destinationToleranceMeters || 500
DefaultDeviationThresholdMeters == 500    \* settings.deviationThresholdMeters default
DefaultInactivityThresholdMinutes == 30   \* settings.inactivityThresholdMinutes default

NoTime == -1            \* a Date field that is null

UserOrder == <<"u1", "u2">>
Users == {UserOrder[i] : i \in 1..Len(UserOrder)}
Procs == 1..MaxProcs
JobNames == {"main-sos-check", "cleanup", "high-risk-monitoring"}
Reasons == {"inactivity", "location_deviation"}
TripOrder == <<"t1", "t2">>
TripIds == {TripOrder[i] : i \in 1..Len(TripOrder)}
TripProcs == 1..MaxTripProcs
Statuses == {"scheduled", "active", "completed", "missed", "alert_triggered", "cancelled"}

VARIABLES
  now,              \* wall clock, minutes
  users,            \* User collection: userId -> document
  sosIsRunning,     \* SOSMonitoringJob.isRunning
  jobs,             \* SOSMonitoringJob.jobs: name -> "absent" | "scheduled" | "stopped"
  orphans,          \* cron tasks still scheduled whose map entry was overwritten
  processedAlerts,  \* AutoSOSService.processedAlerts (set of alert keys)
  timers,           \* pending setTimeout callbacks: [key, at]
  sosAlerts,        \* SOSAlert collection
  manualCount,      \* number of manual triggers taken so far
  sPc,              \* position of each SOS scan invocation
  sKind,            \* "main" | "manual" | "highrisk" | "none"
  sQueue,           \* users still to be evaluated (snapshots loaded by User.find)
  sCur,             \* the evaluation in hand: [user, reason]
  trips,            \* TripEvent collection: tripId -> document
  tripIsRunning,    \* TripMonitoringService.isRunning (the service was started)
  monitoringJob,    \* TripMonitoringService.monitoringJob: "null" | "scheduled"
  cleanupJob,       \* TripMonitoringService.cleanupJob: "null" | "scheduled"
  tripOps,          \* number of PATCH / DELETE requests accepted so far
  tPc,              \* position of each checkActiveTrips invocation
  tNow,             \* the 'now' each invocation captured when it began
  tQueue,           \* documents its current query returned, head = the one in hand
  tAlerted,         \* trips for which the invocation has stored an SOSAlert so far
  profile,          \* one User document with the fields the safe-zone evaluation reads
  sosStatus,        \* the status object getUserSOSStatus returned last
  everEnabled,      \* PUT /settings was accepted with autoSOSEnabled: true
  contactNotifications, \* ContactNotification collection
  fanouts,          \* detached sosService.notifyEmergencyContacts calls and their results
  mReq,             \* the POST /auto-sos/trigger request in flight
  responses,        \* the responses sent to manual trigger requests
  cancelReqs,       \* the cancel requests that found their alert and have not saved it
  hrReturn,         \* what enable / disableHighRiskMonitoring returned last
  otpVerifications, \* OTPVerification collection (the documents of one e-mail address)
  otpMails,         \* the OTPs mailed to that address, in order
  registered,       \* a User with that address exists
  verifyReqs,       \* the verify requests that loaded their document and have not saved it
  otpResponses      \* the responses sent to verify requests

sosVars == <<now, users, sosIsRunning, jobs, orphans, processedAlerts, timers,
             sosAlerts, manualCount, sPc, sKind, sQueue, sCur>>

tripVars == <<trips, tripIsRunning, monitoringJob, cleanupJob, tripOps, tPc, tNow, tQueue,
              tAlerted>>

\* the state of the SOS job that the trip service never touches
sosOnly == <<users, sosIsRunning, jobs, orphans, processedAlerts, timers, manualCount,
             sPc, sKind, sQueue, sCur>>

\* the state outside the two monitoring services
profileVars == <<profile, sosStatus, everEnabled>>

notifyVars == <<contactNotifications, fanouts, mReq, responses, cancelReqs>>

otpVars == <<otpVerifications, otpMails, registered, verifyReqs, otpResponses>>

extVars == <<profileVars, notifyVars, hrReturn, otpVars>>

vars == <<sosVars, tripVars, extVars>>

NoCur == [user |-> "none", reason |-> "none"]

\* ------------------------------------------------------------ User.js

\* the two checks taken in the other order
shouldTriggerDeviationFirst(user) ==
  IF ~user.autoSOSEnabled THEN [shouldTrigger |-> FALSE, reason |-> "Auto SOS disabled"]
  ELSE IF user.deviated THEN [shouldTrigger |-> TRUE, reason |-> "location_deviation"]
  ELSE IF user.inactive THEN [shouldTrigger |-> TRUE, reason |-> "inactivity"]
  ELSE [shouldTrigger |-> FALSE, reason |-> "All conditions normal"]


\* userSchema.methods.shouldTriggerAutoSOS: disabled first, then inactivity,
\* then deviation.  isInactive() and hasLocationDeviated() are the two flags
\* of the document.
shouldTriggerAutoSOS(user) ==
  IF ~user.autoSOSEnabled THEN [shouldTrigger |-> FALSE, reason |-> "Auto SOS disabled"]
  ELSE IF user.inactive THEN [shouldTrigger |-> TRUE, reason |-> "inactivity"]
  ELSE IF user.deviated THEN [shouldTrigger |-> TRUE, reason |-> "location_deviation"]
  ELSE [shouldTrigger |-> FALSE, reason |-> "All conditions normal"]

\* The job created by startMainSOSCheck / startHighRiskMonitoring replaces the
\* map entry; a task that was scheduled under the same name keeps ticking.
Orphaned(name) == IF jobs[name] = "scheduled" THEN 1 ELSE 0

\* ------------------------------------------------------ autoSOSService.js

\* User.find({isActive: true, 'settings.autoSOSEnabled': true}): the documents
\* as they are at the time of the query, in collection order.
FindAutoSOSUsers ==
  LET all == [i \in 1..Len(UserOrder) |-> [id |-> UserOrder[i]] @@ users[UserOrder[i]]]
  IN SelectSeq(all, LAMBDA d : d.isActive /\ d.autoSOSEnabled)

\* a key that does not tell the condition kinds apart
AlertKeyOfUser(userId, reason) == <<userId, "any">>

\* `${user._id}_${sosCheck.reason}`
AlertKey(userId, reason) == <<userId, reason>>

\* this.processedAlerts.delete(user._id.toString()): the set holds alert keys,
\* never a bare user id, so the element removed is one that is never present.
DeleteUserId(set, userId) == set \ {<<userId>>}

\* a marking that is lost
MarkProcessedLost(set, key) == set

\* this.processedAlerts.add(alertKey)
MarkProcessed(set, key) == set \cup {key}

\* A new SOSAlert document: status defaults to 'active'.  The collection is a
\* set of documents; n tells apart the documents that agree on every other
\* field, tripId is the trip named in the metadata handed to the constructor.
SOSAlertDoc(userId, kind, source, tripId) ==
  LET like == {a \in sosAlerts : a.userId = userId /\ a.kind = kind
                                  /\ a.createdAt = now /\ a.source = source
                                  /\ a.tripId = tripId}
  IN [userId |-> userId, kind |-> kind, status |-> "active", createdAt |-> now,
      updatedAt |-> now, source |-> source, tripId |-> tripId, n |-> Cardinality(like) + 1,
      cancelledAt |-> NoTime, cancelReason |-> "none"]

NewAlert(userId, kind, source) == SOSAlertDoc(userId, kind, source, "none")

IdleProcs == {p \in Procs : sPc[p] = "idle"}
FreeProc == CHOOSE p \in IdleProcs : \A q \in IdleProcs : p <= q

\* the scan cycles (checkAllUsersForAutoSOS) that have started and not returned
CyclesInProgress == {p \in Procs : sKind[p] \in {"main", "manual"} /\ sPc[p] # "idle"}

\* ------------------------------------------------------ sosMonitoringJob.js

\* startMonitoring(): startMainSOSCheck() and startCleanupJob() each schedule a
\* new cron task and jobs.set() it under its name.
StartMonitoring ==
  /\ orphans["main-sos-check"] + Orphaned("main-sos-check") <= MaxOrphans
  /\ orphans' = [orphans EXCEPT !["main-sos-check"] = @ + Orphaned("main-sos-check"),
                                !["cleanup"] = @ + Orphaned("cleanup")]
  /\ jobs' = [jobs EXCEPT !["main-sos-check"] = "scheduled", !["cleanup"] = "scheduled"]
  /\ UNCHANGED <<extVars, tripVars, now, users, sosIsRunning, processedAlerts, timers, sosAlerts,
                 manualCount, sPc, sKind, sQueue, sCur>>

\* the cron callback of startMainSOSCheck, up to its first await
BeginCycle(kind) ==
  /\ IdleProcs # {}
  /\ sosIsRunning' = TRUE
  /\ sPc' = [sPc EXCEPT ![FreeProc] = "find"]
  /\ sKind' = [sKind EXCEPT ![FreeProc] = kind]
  /\ UNCHANGED <<extVars, tripVars, now, users, jobs, orphans, processedAlerts, timers, sosAlerts,
                 manualCount, sQueue, sCur>>

MainTick ==
  /\ jobs["main-sos-check"] = "scheduled" \/ orphans["main-sos-check"] > 0
  /\ IF sosIsRunning
       THEN UNCHANGED vars          \* 'already running, skipping this cycle'
       ELSE BeginCycle("main")

\* manualSOSCheck(): throws while isRunning, else runs one cycle
ManualSOSCheck ==
  IF sosIsRunning
    THEN UNCHANGED vars             \* throw new Error('SOS check already running')
    ELSE BeginCycle("manual")

\* startHighRiskMonitoring(): the job is created with scheduled: false
StartHighRiskMonitoring ==
  /\ orphans["high-risk-monitoring"] + Orphaned("high-risk-monitoring") <= MaxOrphans
  /\ orphans' = [orphans EXCEPT !["high-risk-monitoring"] = @ + Orphaned("high-risk-monitoring")]
  /\ jobs' = [jobs EXCEPT !["high-risk-monitoring"] = "stopped"]
  /\ UNCHANGED <<extVars, tripVars, now, users, sosIsRunning, processedAlerts, timers, sosAlerts,
                 manualCount, sPc, sKind, sQueue, sCur>>

NoReturn == [called |-> FALSE, enabled |-> FALSE, result |-> FALSE]

\* enableHighRiskMonitoring() / disableHighRiskMonitoring(): job.start() or
\* job.stop() and true if the map has the job, false otherwise
SetHighRiskMonitoring(enabled) ==
  /\ jobs' = [jobs EXCEPT !["high-risk-monitoring"] =
                IF @ = "absent" THEN @ ELSE IF enabled THEN "scheduled" ELSE "stopped"]
  /\ hrReturn' = [called |-> TRUE, enabled |-> enabled,
                  result |-> jobs["high-risk-monitoring"] # "absent"]
  /\ UNCHANGED <<profileVars, notifyVars, otpVars, tripVars, now, users, sosIsRunning, orphans,
                 processedAlerts, timers, sosAlerts, manualCount, sPc, sKind, sQueue, sCur>>

\* the cron callback of startHighRiskMonitoring: no isRunning test at all
HighRiskTick ==
  /\ jobs["high-risk-monitoring"] = "scheduled" \/ orphans["high-risk-monitoring"] > 0
  /\ IdleProcs # {}
  /\ sPc' = [sPc EXCEPT ![FreeProc] = "find"]
  /\ sKind' = [sKind EXCEPT ![FreeProc] = "highrisk"]
  /\ UNCHANGED <<extVars, tripVars, now, users, sosIsRunning, jobs, orphans, processedAlerts,
                 timers,
                 sosAlerts, manualCount, sQueue, sCur>>

\* stopMonitoring(): stops the jobs of the map, clears it, resets isRunning
StopMonitoring ==
  /\ jobs' = [n \in JobNames |-> "absent"]
  /\ sosIsRunning' = FALSE
  /\ UNCHANGED <<extVars, tripVars, now, users, orphans, processedAlerts, timers, sosAlerts,
                 manualCount, sPc, sKind, sQueue, sCur>>

\* ------------------------------------------- one scan, await by await

\* what follows the evaluation of the head of the queue
NextUser(p) ==
  /\ sQueue' = [sQueue EXCEPT ![p] = Tail(@)]
  /\ sPc' = [sPc EXCEPT ![p] = IF Len(sQueue[p]) > 1 THEN "check" ELSE "finally"]
  /\ sCur' = [sCur EXCEPT ![p] = NoCur]

\* await User.find(...) resolves
FindUsers(p) ==
  /\ sPc[p] = "find"
  /\ sQueue' = [sQueue EXCEPT ![p] = FindAutoSOSUsers]
  /\ sPc' = [sPc EXCEPT ![p] = IF FindAutoSOSUsers = <<>> THEN "finally" ELSE "check"]
  /\ UNCHANGED <<extVars, tripVars, now, users, sosIsRunning, jobs, orphans, processedAlerts,
                 timers,
                 sosAlerts, manualCount, sKind, sCur>>

\* checkUserForAutoSOS up to 'await this.triggerAutoSOS'
CheckUser(p) ==
  /\ sPc[p] = "check"
  /\ LET user == Head(sQueue[p])
         sosCheck == shouldTriggerAutoSOS(user)
         alertKey == AlertKey(user.id, sosCheck.reason)
     IN IF ~sosCheck.shouldTrigger
          THEN /\ processedAlerts' = DeleteUserId(processedAlerts, user.id)
               /\ NextUser(p)
          ELSE IF alertKey \in processedAlerts
          THEN /\ UNCHANGED processedAlerts
               /\ NextUser(p)
          ELSE /\ sCur' = [sCur EXCEPT ![p] = [user |-> user.id, reason |-> sosCheck.reason]]
               /\ sPc' = [sPc EXCEPT ![p] = "create"]
               /\ UNCHANGED <<processedAlerts, sQueue>>
  /\ UNCHANGED <<extVars, tripVars, now, users, sosIsRunning, jobs, orphans, timers, sosAlerts,
                 manualCount, sKind>>

\* triggerAutoSOS: await SOSAlert.create(alertData) resolves
CreateAlert(p) ==
  /\ sPc[p] = "create"
  /\ sosAlerts' = sosAlerts \cup {NewAlert(sCur[p].user, sCur[p].reason, "scan")}
  /\ sPc' = [sPc EXCEPT ![p] = "notify"]
  /\ UNCHANGED <<extVars, tripVars, now, users, sosIsRunning, jobs, orphans, processedAlerts,
                 timers,
                 manualCount, sKind, sQueue, sCur>>

\* triggerAutoSOS returns after the contacts were notified; checkUserForAutoSOS
\* marks the key and arms the one-hour timer
MarkAndArm(p) ==
  /\ sPc[p] = "notify"
  /\ LET alertKey == AlertKey(sCur[p].user, sCur[p].reason)
     IN /\ processedAlerts' = MarkProcessed(processedAlerts, alertKey)
        /\ timers' = timers \cup {[key |-> alertKey, at |-> now + CoolDownMinutes]}
  /\ NextUser(p)
  /\ UNCHANGED <<extVars, tripVars, now, users, sosIsRunning, jobs, orphans, sosAlerts,
                 manualCount, sKind>>

\* a cycle that returns and leaves the flag as it is
FinishCycleKeepsFlag(p) ==
  /\ sPc[p] = "finally"
  /\ sPc' = [sPc EXCEPT ![p] = "idle"]
  /\ sKind' = [sKind EXCEPT ![p] = "none"]
  /\ sQueue' = [sQueue EXCEPT ![p] = <<>>]
  /\ UNCHANGED <<extVars, tripVars, now, users, jobs, orphans, processedAlerts, timers, sosAlerts,
                 manualCount, sCur, sosIsRunning>>

\* the cycle returns: 'finally { this.isRunning = false }' in the main job and
\* in manualSOSCheck; the high-risk callback has no flag
FinishCycle(p) ==
  /\ sPc[p] = "finally"
  /\ sosIsRunning' = IF sKind[p] \in {"main", "manual"} THEN FALSE ELSE sosIsRunning
  /\ sPc' = [sPc EXCEPT ![p] = "idle"]
  /\ sKind' = [sKind EXCEPT ![p] = "none"]
  /\ sQueue' = [sQueue EXCEPT ![p] = <<>>]
  /\ UNCHANGED <<extVars, tripVars, now, users, jobs, orphans, processedAlerts, timers, sosAlerts,
                 manualCount, sCur>>

\* setTimeout(() => this.processedAlerts.delete(alertKey), 60 * 60 * 1000)
TimerFires(tm) ==
  /\ tm \in timers
  /\ tm.at <= now
  /\ processedAlerts' = processedAlerts \ {tm.key}
  /\ timers' = timers \ {tm}
  /\ UNCHANGED <<extVars, tripVars, now, users, sosIsRunning, jobs, orphans, sosAlerts,
                 manualCount,
                 sPc, sKind, sQueue, sCur>>

\* the clock: a due timer runs before time passes it
NextInstant ==
  LET cands == {now + TimeStep} \cup {tm.at : tm \in timers}
  IN CHOOSE t \in cands : \A c \in cands : t <= c

AdvanceTime ==
  /\ \A tm \in timers : tm.at > now
  /\ NextInstant <= MaxTime
  /\ now' = NextInstant
  /\ UNCHANGED <<extVars, tripVars, users, sosIsRunning, jobs, orphans, processedAlerts,
                 timers, sosAlerts,
                 manualCount, sPc, sKind, sQueue, sCur>>

\* ------------------------------------------------------- requests

\* a location ping (updateLastKnownLocation): lastActiveAt is refreshed, the
\* new position is inside or outside the deviation threshold
LocationPing(u, deviated) ==
  /\ users' = [users EXCEPT ![u].inactive = FALSE, ![u].deviated = deviated]
  /\ users' # users
  /\ UNCHANGED <<extVars, tripVars, now, sosIsRunning, jobs, orphans, processedAlerts, timers,
                 sosAlerts,
                 manualCount, sPc, sKind, sQueue, sCur>>

\* no activity for longer than inactivityThresholdMinutes
InactivityElapses(u) ==
  /\ ~users[u].inactive
  /\ users' = [users EXCEPT ![u].inactive = TRUE]
  /\ UNCHANGED <<extVars, tripVars, now, sosIsRunning, jobs, orphans, processedAlerts, timers,
                 sosAlerts,
                 manualCount, sPc, sKind, sQueue, sCur>>

\* EmergencyContact.find({userId}): the user's contacts in the order of the query
ContactsOf(u) == [i \in 1..users[u].emergencyContacts |-> i]

NoReq == [pc |-> "idle", alert |-> NoCur, todo |-> <<>>, results |-> <<>>]

\* one pass of the 'for (const contact of contacts)' loop of
\* notifyEmergencyContacts: the attempt is recorded as sent, or as failed by
\* the catch of the loop body
Attempted(call, outcome) ==
  [call EXCEPT !.todo = Tail(@),
               !.results = Append(@, [contactId |-> Head(call.todo), status |-> outcome])]

\* manualTriggerSOS(userId, reason) up to the fanout: triggerAutoSOS stores the
\* alert and loads the contacts; without contacts it returns and the route
\* responds, otherwise it awaits notifyEmergencyContacts
ManualTriggerSOS(u) ==
  /\ manualCount < MaxManual
  /\ mReq.pc = "idle"
  /\ manualCount' = manualCount + 1
  /\ LET alert == NewAlert(u, "manual_test", "manualTriggerSOS")
     IN /\ sosAlerts' = sosAlerts \cup {alert}
        /\ IF ContactsOf(u) = <<>>
             THEN /\ responses' = responses \cup
                        {[route |-> "/auto-sos/trigger", alert |-> alert, success |-> TRUE,
                          alertStatus |-> alert.status]}
                  /\ UNCHANGED mReq
             ELSE /\ mReq' = [pc |-> "notify", alert |-> alert, todo |-> ContactsOf(u),
                              results |-> <<>>]
                  /\ UNCHANGED responses
  /\ UNCHANGED <<profileVars, otpVars, hrReturn, cancelReqs, contactNotifications, fanouts, tripVars, now, users,
                 sosIsRunning,
                 jobs, orphans, processedAlerts, timers, sPc, sKind, sQueue, sCur>>

\* autoSOSService.notifyEmergencyContacts: the next contact is attempted
ManualNotify(outcome) ==
  /\ mReq.pc = "notify"
  /\ LET next == Attempted(mReq, outcome)
     IN mReq' = [next EXCEPT !.pc = IF next.todo = <<>> THEN "respond" ELSE "notify"]
  /\ UNCHANGED <<profileVars, otpVars, hrReturn, cancelReqs, contactNotifications, fanouts, responses, sosVars,
                 tripVars>>

\* triggerAutoSOS and manualTriggerSOS return, POST /auto-sos/trigger responds
ManualRespond ==
  /\ mReq.pc = "respond"
  /\ responses' = responses \cup
       {[route |-> "/auto-sos/trigger", alert |-> mReq.alert, success |-> TRUE,
         alertStatus |-> mReq.alert.status]}
  /\ mReq' = NoReq
  /\ UNCHANGED <<profileVars, otpVars, hrReturn, cancelReqs, contactNotifications, fanouts, sosVars, tripVars>>

\* POST /sos/trigger: the alert is saved, one pending ContactNotification is
\* saved for each contact, the emergency services are notified if
\* immediateAlert is set (a failure is caught), notifyEmergencyContacts and
\* notifyPushToAllUsers are started without await, and the route responds
SOSTrigger(u) ==
  /\ manualCount < MaxManual
  /\ manualCount' = manualCount + 1
  /\ LET alert == NewAlert(u, "manual", "POST /sos/trigger")
     IN /\ sosAlerts' = sosAlerts \cup {alert}
        /\ contactNotifications' = contactNotifications \cup
             {[alert |-> alert, contactId |-> ContactsOf(u)[i], notificationStatus |-> "pending"] :
                i \in 1..Len(ContactsOf(u))}
        /\ fanouts' = fanouts \cup
             {[pc |-> "detached", alert |-> alert, todo |-> ContactsOf(u), results |-> <<>>]}
        /\ responses' = responses \cup
             {[route |-> "/sos/trigger", alert |-> alert, success |-> TRUE,
               alertStatus |-> alert.status]}
  /\ UNCHANGED <<profileVars, otpVars, hrReturn, cancelReqs, mReq, tripVars, now, users, sosIsRunning, jobs, orphans,
                 processedAlerts, timers, sPc, sKind, sQueue, sCur>>

\* sosService.notifyEmergencyContacts, started by POST /sos/trigger: the next
\* contact is attempted; the array of results is what the call resolves to
FanoutStep(call, outcome) ==
  /\ call \in fanouts
  /\ call.todo # <<>>
  /\ fanouts' = (fanouts \ {call}) \cup {Attempted(call, outcome)}
  /\ UNCHANGED <<profileVars, otpVars, hrReturn, cancelReqs, contactNotifications, mReq, responses, sosVars, tripVars>>

NotifyInit ==
  /\ hrReturn = NoReturn
  /\ contactNotifications = {}
  /\ fanouts = {}
  /\ mReq = NoReq
  /\ cancelReqs = {}
  /\ responses = {}

SOSInit ==
  /\ now = 0
  /\ users = [u \in Users |-> [isActive |-> TRUE, autoSOSEnabled |-> TRUE,
                               inactive |-> FALSE, deviated |-> FALSE,
                               emergencyContacts |-> IF u = "u1" THEN 2 ELSE 0]]
  /\ sosIsRunning = FALSE
  /\ jobs = [n \in JobNames |-> "absent"]
  /\ orphans = [n \in JobNames |-> 0]
  /\ processedAlerts = {}
  /\ timers = {}
  /\ sosAlerts = {}
  /\ manualCount = 0
  /\ sPc = [p \in Procs |-> "idle"]
  /\ sKind = [p \in Procs |-> "none"]
  /\ sQueue = [p \in Procs |-> <<>>]
  /\ sCur = [p \in Procs |-> NoCur]

\* ------------------------------------------- the scan when a query rejects

\* await User.find(...) rejects: the catch of checkAllUsersForAutoSOS logs the
\* error and the cycle returns to the finally of its caller
FindUsersFails(p) ==
  /\ sPc[p] = "find"
  /\ sPc' = [sPc EXCEPT ![p] = "finally"]
  /\ UNCHANGED <<extVars, tripVars, now, users, sosIsRunning, jobs, orphans, processedAlerts,
                 timers, sosAlerts, manualCount, sKind, sQueue, sCur>>

\* triggerAutoSOS: await SOSAlert.create(alertData) rejects; triggerAutoSOS
\* rethrows, the catch of checkUserForAutoSOS returns false
CreateAlertFails(p) ==
  /\ sPc[p] = "create"
  /\ NextUser(p)
  /\ UNCHANGED <<extVars, tripVars, now, users, sosIsRunning, jobs, orphans, processedAlerts,
                 timers, sosAlerts, manualCount, sKind>>

\* a failure after the alert was stored that marks the key all the same
ContactsFindFailsMarked(p) ==
  /\ sPc[p] = "notify"
  /\ Cardinality(sosAlerts) < MaxStoredAlerts
  /\ processedAlerts' = MarkProcessed(processedAlerts, AlertKey(sCur[p].user, sCur[p].reason))
  /\ NextUser(p)
  /\ UNCHANGED <<extVars, tripVars, now, users, sosIsRunning, jobs, orphans,
                 timers, sosAlerts, manualCount, sKind>>

\* triggerAutoSOS: the alert is stored and await EmergencyContact.find(...)
\* rejects; triggerAutoSOS rethrows, the catch of checkUserForAutoSOS returns
\* false before the key is added
ContactsFindFails(p) ==
  /\ sPc[p] = "notify"
  /\ Cardinality(sosAlerts) < MaxStoredAlerts
  /\ NextUser(p)
  /\ UNCHANGED <<extVars, tripVars, now, users, sosIsRunning, jobs, orphans, processedAlerts,
                 timers, sosAlerts, manualCount, sKind>>

\* ------------------------------------------- the alerts after they were raised

\* the _id of an SOSAlert document: what ContactNotification.alertId holds
AlertId(a) == <<a.userId, a.kind, a.createdAt, a.source, a.tripId, a.n>>

\* the reasons sent with a cancel request ('Cancelled by user' when absent)
CancelReasons == {"Cancelled by user", "false alarm"}

CancelRoute == "/sos/alerts/:alertId/cancel"

\* the cancel requests received so far
CancelsReceived ==
  Cardinality(cancelReqs) + Cardinality({r \in responses : r.route = CancelRoute})

\* POST /sos/alerts/:alertId/cancel up to its save: SOSAlert.findOne({_id,
\* userId: req.user._id, status: 'active'}); 404 'Active alert not found' when
\* nothing matches
CancelFind(a, by, reason) ==
  /\ a \in sosAlerts
  /\ CancelsReceived < MaxCancels
  /\ IF a.userId # by \/ a.status # "active"
       THEN /\ responses' = responses \cup
                 {[route |-> CancelRoute, alert |-> a, by |-> by, success |-> FALSE,
                   alertStatus |-> "not found"]}
            /\ UNCHANGED cancelReqs
       ELSE /\ cancelReqs' = cancelReqs \cup {[alert |-> a, by |-> by, reason |-> reason]}
            /\ UNCHANGED responses
  /\ UNCHANGED <<profileVars, otpVars, hrReturn, contactNotifications, fanouts, mReq, sosVars, tripVars>>

\* the rest of the route: status = 'cancelled', cancelledAt = new Date(),
\* cancelReason, await alert.save() writes the three paths on the stored
\* document whatever its status is by now, and the route answers success; the
\* save of a document that is no longer stored is answered 500
CancelSave(req) ==
  /\ req \in cancelReqs
  /\ cancelReqs' = cancelReqs \ {req}
  /\ LET stored == {s \in sosAlerts : AlertId(s) = AlertId(req.alert)}
     IN IF stored = {}
          THEN /\ responses' = responses \cup
                    {[route |-> CancelRoute, alert |-> req.alert, by |-> req.by,
                      success |-> FALSE, alertStatus |-> "error"]}
               /\ UNCHANGED sosAlerts
          ELSE /\ sosAlerts' = (sosAlerts \ stored) \cup
                    {[s EXCEPT !.status = "cancelled", !.cancelledAt = now,
                               !.cancelReason = req.reason, !.updatedAt = now] : s \in stored}
               /\ responses' = responses \cup
                    {[route |-> CancelRoute, alert |-> req.alert, by |-> req.by,
                      success |-> TRUE, alertStatus |-> "cancelled"]}
  /\ UNCHANGED <<profileVars, otpVars, hrReturn, contactNotifications, fanouts, mReq, tripVars, now,
                 sosOnly>>

\* status 'resolved' is a value of the schema enum that no handler of the
\* repository assigns: the document is marked resolved by a write to the
\* collection from outside the handlers
ResolveAlert(a) ==
  /\ a \in sosAlerts
  /\ a.status = "active"
  /\ sosAlerts' = (sosAlerts \ {a}) \cup {[a EXCEPT !.status = "resolved", !.updatedAt = now]}
  /\ UNCHANGED <<extVars, tripVars, now, sosOnly>>

\* SOSAlert.deleteMany({status: 'resolved', updatedAt: {$lt: twentyFourHoursAgo}})
OldResolvedAlerts ==
  {a \in sosAlerts : a.status = "resolved" /\ a.updatedAt < now - TwentyFourHours}

\* the cron callback of startCleanupJob: performCleanup deletes the old
\* resolved alerts, then logSystemStats only counts documents
CleanupTick ==
  /\ jobs["cleanup"] = "scheduled" \/ orphans["cleanup"] > 0
  /\ sosAlerts' = sosAlerts \ OldResolvedAlerts
  /\ UNCHANGED <<extVars, tripVars, now, sosOnly>>

\* half a day goes by
CleanupTimePasses ==
  /\ timers = {}
  /\ now + CleanupStep <= MaxCleanupTime
  /\ now' = now + CleanupStep
  /\ UNCHANGED <<extVars, tripVars, sosOnly, sosAlerts>>

\* ------------------------------------------------ e-mail verification by OTP

\* the six-digit codes generateOTP() draws and the requests carry
Codes == {"111111", "222222"}

\* the documents the pre(['find', 'findOne', 'findOneAndUpdate']) hook lets a
\* query without an expiresAt condition see: expiresAt > new Date()
FoundOtp == {d \in otpVerifications : d.expiresAt > now}

\* OTPVerification.findOneAndUpdate({email}, {otp, expiresAt, attempts: 0,
\* isUsed: false, ...}, {upsert: true}) and transporter.sendMail: the document
\* the hooked query matches is overwritten, and a new one is inserted when it
\* matches none
IssueOTP(otp) ==
  LET issue == Len(otpMails) + 1
      fresh == [id |-> issue, issue |-> issue, otp |-> otp, expiresAt |-> now + OtpLifetime,
                attempts |-> 0, isUsed |-> FALSE]
  IN /\ IF FoundOtp = {}
          THEN otpVerifications' = otpVerifications \cup {fresh}
          ELSE \E d \in FoundOtp :
                 otpVerifications' = (otpVerifications \ {d}) \cup {[fresh EXCEPT !.id = d.id]}
     /\ otpMails' = Append(otpMails, [otp |-> otp, expiresAt |-> now + OtpLifetime])

\* POST /otp/send: 409 when a user with the e-mail and isEmailVerified: true
\* exists, otherwise a new OTP is stored and mailed
SendOTP(otp) ==
  /\ Len(otpMails) < MaxOtpSends
  /\ ~registered
  /\ IssueOTP(otp)
  /\ UNCHANGED <<registered, verifyReqs, otpResponses, sosVars, tripVars, profileVars,
                 notifyVars, hrReturn>>

\* POST /otp/resend: 429 while the OTP found has more than 240 seconds left,
\* otherwise a new OTP is stored and mailed
ResendOTP(otp) ==
  /\ Len(otpMails) < MaxOtpSends
  /\ \A d \in FoundOtp : d.expiresAt - now <= ResendAfter
  /\ IssueOTP(otp)
  /\ UNCHANGED <<registered, verifyReqs, otpResponses, sosVars, tripVars, profileVars,
                 notifyVars, hrReturn>>

\* POST /auth/signup: the user is created, and isEmailVerified defaults to true
Signup ==
  /\ ~registered
  /\ registered' = TRUE
  /\ UNCHANGED <<otpVerifications, otpMails, verifyReqs, otpResponses, sosVars, tripVars,
                 profileVars, notifyVars, hrReturn>>

\* the verify requests received so far
VerifiesReceived == Cardinality(verifyReqs) + Cardinality(otpResponses)

\* the response to a verify request that arrived at 'arrivedAt', after
\* 'answered' responses had been sent
Answer(issue, arrivedAt, answered, status) ==
  [issue |-> issue, arrivedAt |-> arrivedAt, answered |-> answered, status |-> status,
   seq |-> Cardinality(otpResponses) + 1]

\* POST /otp/verify up to its save: findOne({email}) through the hook, 404
\* when nothing is found, 400 when isUsed, deleteOne({email}) and 400 when
\* expired, deleteOne({email}) and 429 when attempts >= 3; a wrong code sets
\* attempts += 1 and a right one isUsed = true on the loaded document, which
\* is then saved
VerifyFind(otp) ==
  LET n == VerifiesReceived + 1
      answered == Cardinality(otpResponses)
  IN /\ VerifiesReceived < MaxVerifies
     /\ IF FoundOtp = {}
          THEN /\ otpResponses' = otpResponses \cup {Answer(0, now, answered, "not found")}
               /\ UNCHANGED <<otpVerifications, verifyReqs>>
          ELSE \E d \in FoundOtp :
                 IF d.isUsed
                   THEN /\ otpResponses' = otpResponses \cup
                             {Answer(d.issue, now, answered, "used")}
                        /\ UNCHANGED <<otpVerifications, verifyReqs>>
                   ELSE IF d.expiresAt < now \/ d.attempts >= MaxAttempts
                     THEN /\ \E gone \in otpVerifications :
                               otpVerifications' = otpVerifications \ {gone}
                          /\ otpResponses' = otpResponses \cup
                               {Answer(d.issue, now, answered,
                                       IF d.expiresAt < now THEN "expired" ELSE "too many")}
                          /\ UNCHANGED verifyReqs
                     ELSE /\ verifyReqs' = verifyReqs \cup
                               {[n |-> n, id |-> d.id, issue |-> d.issue, arrivedAt |-> now,
                                 answered |-> answered, correct |-> d.otp = otp,
                                 attempts |-> IF d.otp = otp THEN d.attempts ELSE d.attempts + 1]}
                          /\ UNCHANGED <<otpVerifications, otpResponses>>
     /\ UNCHANGED <<otpMails, registered, sosVars, tripVars, profileVars, notifyVars, hrReturn>>

\* the rest of the route: otpRecord.save() writes the changed paths on the
\* stored document with the loaded _id, whatever it holds by now, and throws
\* when it is no longer stored; after a wrong code 400 'Invalid OTP'; after a
\* right one the user is loaded and saved with isEmailVerified = true (the
\* placeholder user created when there is none fails validation: phone and
\* password are required) and the route answers 200
VerifySave(req) ==
  /\ req \in verifyReqs
  /\ verifyReqs' = verifyReqs \ {req}
  /\ LET stored == {d \in otpVerifications : d.id = req.id}
         answer(status) == Answer(req.issue, req.arrivedAt, req.answered, status)
     IN IF stored = {}
          THEN /\ otpResponses' = otpResponses \cup {answer("error")}
               /\ UNCHANGED otpVerifications
          ELSE /\ otpVerifications' = (otpVerifications \ stored) \cup
                    {IF req.correct THEN [d EXCEPT !.isUsed = TRUE]
                                    ELSE [d EXCEPT !.attempts = req.attempts] : d \in stored}
               /\ otpResponses' = otpResponses \cup
                    {answer(IF ~req.correct THEN "invalid"
                            ELSE IF registered THEN "verified" ELSE "error")}
  /\ UNCHANGED <<otpMails, registered, sosVars, tripVars, profileVars, notifyVars, hrReturn>>

\* the TTL index on expiresAt and the deleteMany({expiresAt: {$lt: new Date()}})
\* the verify route schedules: expired documents are removed
RemoveExpiredOtp ==
  /\ \E d \in otpVerifications : d.expiresAt < now
  /\ otpVerifications' = {d \in otpVerifications : ~(d.expiresAt < now)}
  /\ UNCHANGED <<otpMails, registered, verifyReqs, otpResponses, sosVars, tripVars,
                 profileVars, notifyVars, hrReturn>>

\* minutes pass in the OTP scenario
OtpTimePasses ==
  /\ now + OtpStep <= MaxOtpTime
  /\ now' = now + OtpStep
  /\ UNCHANGED <<extVars, tripVars, users, sosIsRunning, jobs, orphans, processedAlerts,
                 timers, sosAlerts, manualCount, sPc, sKind, sQueue, sCur>>

OtpInit ==
  /\ otpVerifications = {}
  /\ otpMails = <<>>
  /\ registered = FALSE
  /\ verifyReqs = {}
  /\ otpResponses = {}

\* ---------------------------------------------------------------- locations

\* latitude / longitude: default null
NoCoordinate == 999

\* Coordinates are counted in thousandths of a degree; the places of the model
\* lie on one meridian, 888 m apart.
NoLocation == [latitude |-> NoCoordinate, longitude |-> NoCoordinate]
Places == {[latitude |-> 1, longitude |-> 1], [latitude |-> 9, longitude |-> 1]}

\* a place on the equator: its latitude is the number 0
Equator == [latitude |-> 0, longitude |-> 1]


\* a place on the prime meridian: its longitude is the number 0
PrimeMeridian == [latitude |-> 9, longitude |-> 0]

\* the places with a coordinate that is the number 0
ZeroPlaces == {Equator, PrimeMeridian}
\* ------------------------------------------------------------ TripEvent.js

TripOwner(t) == IF t = "t1" THEN "u1" ELSE "u2"

\* the destination the trips of the model are created with
Destination == [latitude |-> 1, longitude |-> 1]

\* a trip id for which no document has been created
AbsentTrip(t) ==
  [id |-> t, userId |-> TripOwner(t), status |-> "absent", startTime |-> 0, endTime |-> 0,
   lastLocationUpdate |-> NoTime, locationTimeoutMinutes |-> DefaultLocationTimeoutMinutes,
   isActive |-> FALSE, syncVersion |-> 0, alertHistory |-> <<>>,
   isEmergencyContactsNotified |-> FALSE, currentLocation |-> NoLocation,
   destination |-> Destination,
   destinationToleranceMeters |-> DefaultDestinationToleranceMeters, updatedAt |-> 0]

\* new TripEvent({...}) with the schema defaults
NewTripEvent(t, startTime, endTime, threshold) ==
  [id |-> t, userId |-> TripOwner(t), status |-> "scheduled", startTime |-> startTime,
   endTime |-> endTime, lastLocationUpdate |-> NoTime,
   locationTimeoutMinutes |-> threshold, isActive |-> TRUE, syncVersion |-> 1,
   alertHistory |-> <<>>, isEmergencyContactsNotified |-> FALSE,
   currentLocation |-> NoLocation, destination |-> Destination,
   destinationToleranceMeters |-> DefaultDestinationToleranceMeters, updatedAt |-> now]

HistoryEntry(alertType, text, from, to) ==
  [alertType |-> alertType, text |-> text, from |-> from, to |-> to]

\* TripEventSchema.methods.updateLocation
updateLocation(doc, place) ==
  [doc EXCEPT !.currentLocation = place, !.lastLocationUpdate = now,
              !.syncVersion = @ + 1]

\* an alert whose entry is not kept
addAlertDropped(doc, entry) == [doc EXCEPT !.syncVersion = @ + 1]

\* TripEventSchema.methods.addAlert: the entry is pushed, syncVersion += 1
addAlert(doc, entry) ==
  [doc EXCEPT !.alertHistory = Append(@, entry), !.syncVersion = @ + 1]

\* a status change that leaves lastLocationUpdate as it was
updateStatusUnstamped(doc, newStatus) ==
  addAlert([doc EXCEPT !.status = newStatus, !.syncVersion = @ + 1],
           HistoryEntry("system", "Status changed", doc.status, newStatus))

\* TripEventSchema.methods.updateStatus
updateStatus(doc, newStatus) ==
  LET oldStatus == doc.status
      logged == addAlert([doc EXCEPT !.status = newStatus, !.syncVersion = @ + 1],
                         HistoryEntry("system", "Status changed", oldStatus, newStatus))
  IN IF newStatus = "active" /\ oldStatus = "scheduled"
       THEN [logged EXCEPT !.lastLocationUpdate = now]
     ELSE IF newStatus \in {"completed", "missed", "cancelled"}
               /\ logged.lastLocationUpdate = NoTime
       THEN [logged EXCEPT !.lastLocationUpdate = now]
     ELSE logged

\* the virtual hasEnded: new Date() > this.endTime
hasEnded(doc) == now > doc.endTime

\* calculateDistanceToDestination returns Infinity without a location
Infinity == 1000000

\* TripEventSchema.methods.calculateDistanceToDestination (Haversine): on one
\* meridian the distance is R * dLat, 111 m for a thousandth of a degree
calculateDistanceToDestination(doc) ==
  IF doc.currentLocation = NoLocation
    THEN Infinity
    ELSE 111 * (IF doc.destination.latitude >= doc.currentLocation.latitude
                  THEN doc.destination.latitude - doc.currentLocation.latitude
                  ELSE doc.currentLocation.latitude - doc.destination.latitude)

\* TripEventSchema.methods.shouldTriggerDestinationAlert
shouldTriggerDestinationAlert(doc) ==
  IF ~hasEnded(doc) \/ doc.currentLocation = NoLocation \/ doc.status = "completed"
    THEN FALSE
    ELSE calculateDistanceToDestination(doc) > doc.destinationToleranceMeters

\* pre('save'): 'End time must be after start time'
PreSaveRejects(doc) == doc.startTime >= doc.endTime

\* pre('save'): a document that is new or whose times were modified and that is
\* 'active' before its start goes back to 'scheduled'
PreSave(doc, isNewOrTimesModified) ==
  IF isNewOrTimesModified /\ now < doc.startTime /\ doc.status = "active"
    THEN [doc EXCEPT !.status = "scheduled"]
    ELSE doc

\* timestamps: true: a write that changes the document sets updatedAt
Timestamps(loaded, local) ==
  IF local # loaded THEN [local EXCEPT !.updatedAt = now] ELSE local

\* document.save(): the paths modified since the document was loaded are
\* written, pushed array elements are appended; nothing compares syncVersion
\* with the stored one.
Modified(loaded, local, stored) == IF local # loaded THEN local ELSE stored

SavedDoc(stored, loaded, local) ==
  [stored EXCEPT
     !.status = Modified(loaded.status, local.status, @),
     !.startTime = Modified(loaded.startTime, local.startTime, @),
     !.endTime = Modified(loaded.endTime, local.endTime, @),
     !.lastLocationUpdate = Modified(loaded.lastLocationUpdate, local.lastLocationUpdate, @),
     !.locationTimeoutMinutes =
        Modified(loaded.locationTimeoutMinutes, local.locationTimeoutMinutes, @),
     !.currentLocation = Modified(loaded.currentLocation, local.currentLocation, @),
     !.isActive = Modified(loaded.isActive, local.isActive, @),
     !.syncVersion = Modified(loaded.syncVersion, local.syncVersion, @),
     !.updatedAt = Modified(loaded.updatedAt, local.updatedAt, @),
     !.isEmergencyContactsNotified =
        Modified(loaded.isEmergencyContactsNotified, local.isEmergencyContactsNotified, @),
     !.alertHistory = @ \o SubSeq(local.alertHistory, Len(loaded.alertHistory) + 1,
                                  Len(local.alertHistory))]

\* TripEvent.find(query) goes through the stored documents in collection order
StoredTrips == [i \in 1..Len(TripOrder) |-> trips[TripOrder[i]]]

\* TripEventSchema.statics.findOverdueTrips
findOverdueTrips ==
  SelectSeq(StoredTrips, LAMBDA d : d.status = "active" /\ d.endTime < now /\ d.isActive)

\* TripEventSchema.statics.findTripsNeedingLocationCheck
findTripsNeedingLocationCheck ==
  SelectSeq(StoredTrips,
            LAMBDA d : /\ d.status = "active"
                       /\ d.startTime <= now /\ d.endTime >= now
                       /\ \/ (d.lastLocationUpdate # NoTime
                                /\ d.lastLocationUpdate < now - ThirtyMinutes)
                          \/ d.lastLocationUpdate = NoTime
                       /\ d.isActive)

\* updateTripStatuses: TripEvent.find({status: 'scheduled', startTime <= now, endTime > now})
tripsToActivate(at) ==
  SelectSeq(StoredTrips,
            LAMBDA d : /\ d.status = "scheduled" /\ d.startTime <= at /\ d.endTime > at
                       /\ d.isActive)

\* updateTripStatuses: TripEvent.find({status: 'scheduled', endTime < now})
tripsToMarkMissed(at) ==
  SelectSeq(StoredTrips, LAMBDA d : d.status = "scheduled" /\ d.endTime < at /\ d.isActive)

\* ------------------------------------------------ tripMonitoringService.js

IdleTripProcs == {p \in TripProcs : tPc[p] = "idle"}
FreeTripProc == CHOOSE p \in IdleTripProcs : \A q \in IdleTripProcs : p <= q

\* the checkActiveTrips invocations that have started and not returned
TripCyclesInProgress == {p \in TripProcs : tPc[p] # "idle"}

\* checkActiveTrips() up to its first await: 'const now = new Date()'
BeginCheckActiveTrips ==
  /\ IdleTripProcs # {}
  /\ tPc' = [tPc EXCEPT ![FreeTripProc] = "findActive"]
  /\ tNow' = [tNow EXCEPT ![FreeTripProc] = now]
  /\ tAlerted' = [tAlerted EXCEPT ![FreeTripProc] = <<>>]

\* start(): returns if already started; else schedules both jobs, sets the
\* flag and calls checkActiveTrips() without awaiting it
TripStart ==
  IF tripIsRunning
    THEN UNCHANGED vars
    ELSE /\ BeginCheckActiveTrips
         /\ monitoringJob' = "scheduled"
         /\ cleanupJob' = "scheduled"
         /\ tripIsRunning' = TRUE
         /\ UNCHANGED <<extVars, sosVars, trips, tripOps, tQueue>>

\* stop(): returns if not started; else destroys both jobs and clears the flag
TripStop ==
  IF ~tripIsRunning
    THEN UNCHANGED vars
    ELSE /\ monitoringJob' = "null"
         /\ cleanupJob' = "null"
         /\ tripIsRunning' = FALSE
         /\ UNCHANGED <<extVars, sosVars, trips, tripOps, tPc, tNow, tQueue, tAlerted>>

\* the callback of cron.schedule('*/5 * * * *'): await this.checkActiveTrips()
TripCronTick ==
  /\ monitoringJob = "scheduled"
  /\ BeginCheckActiveTrips
  /\ UNCHANGED <<extVars, sosVars, trips, tripIsRunning, monitoringJob, cleanupJob, tripOps,
                 tQueue>>

\* manualCheck(): await this.checkActiveTrips()
ManualCheck ==
  /\ BeginCheckActiveTrips
  /\ UNCHANGED <<extVars, sosVars, trips, tripIsRunning, monitoringJob, cleanupJob, tripOps,
                 tQueue>>

\* ----------------------------------- one checkActiveTrips, await by await

\* the for loop goes on to the next document of the query, or the pass ends
NextTrip(p, loopPc, afterPc) ==
  /\ tQueue' = [tQueue EXCEPT ![p] = Tail(@)]
  /\ tPc' = [tPc EXCEPT ![p] = IF Len(tQueue[p]) > 1 THEN loopPc ELSE afterPc]

\* a query resolves: its documents are the ones the loop will go through
LoadTrips(p, found, loopPc, afterPc) ==
  /\ tQueue' = [tQueue EXCEPT ![p] = found]
  /\ tPc' = [tPc EXCEPT ![p] = IF found = <<>> THEN afterPc ELSE loopPc]

\* an exception leaves the loop for the catch of the pass
AbandonPass(p, afterPc) ==
  /\ tQueue' = [tQueue EXCEPT ![p] = <<>>]
  /\ tPc' = [tPc EXCEPT ![p] = afterPc]

\* the document in hand is saved: the stored document takes the modified paths
\* and the local one is what the loop goes on with
SaveInHand(p, local) ==
  LET loaded == Head(tQueue[p])
      stamped == Timestamps(loaded, local)
  IN /\ trips' = [trips EXCEPT ![loaded.id] = SavedDoc(@, loaded, stamped)]
     /\ tQueue' = [tQueue EXCEPT ![p] = <<stamped>> \o Tail(@)]

\* await TripEvent.findActiveTrips(): the result is only counted
FindActiveTrips(p) ==
  /\ tPc[p] = "findActive"
  /\ tPc' = [tPc EXCEPT ![p] = "findOverdue"]
  /\ UNCHANGED <<extVars, sosVars, trips, tripIsRunning, monitoringJob, cleanupJob, tripOps,
                 tNow, tQueue, tAlerted>>

\* checkOverdueTrips: await TripEvent.findOverdueTrips()
FindOverdueTrips(p) ==
  /\ tPc[p] = "findOverdue"
  /\ LoadTrips(p, findOverdueTrips, "overdueSave", "findLocation")
  /\ UNCHANGED <<extVars, sosVars, trips, tripIsRunning, monitoringJob, cleanupJob, tripOps,
                 tNow, tAlerted>>

\* checkOverdueTrips, lines 111-115: updateStatus, addAlert, await trip.save()
OverdueSave(p) ==
  /\ tPc[p] = "overdueSave"
  /\ LET trip == Head(tQueue[p])
         local == addAlert(updateStatus(trip, "alert_triggered"),
                           HistoryEntry("system", "Trip became overdue", "", ""))
     IN IF trip.status = "alert_triggered"
          THEN /\ tPc' = [tPc EXCEPT ![p] = "overdueAlert"]
               /\ UNCHANGED <<trips, tQueue>>
          ELSE IF PreSaveRejects(local)
          THEN /\ AbandonPass(p, "findLocation")
               /\ UNCHANGED trips
          ELSE /\ SaveInHand(p, PreSave(local, FALSE))
               /\ tPc' = [tPc EXCEPT ![p] = "overdueAlert"]
  /\ UNCHANGED <<extVars, sosVars, tripIsRunning, monitoringJob, cleanupJob, tripOps, tNow,
                 tAlerted>>

\* triggerEmergencyAlert: new SOSAlert({...}); await sosAlert.save()
CreateTripAlert(p, atPc, alertType, nextPc) ==
  /\ tPc[p] = atPc
  /\ LET trip == Head(tQueue[p])
     IN sosAlerts' = sosAlerts \cup {SOSAlertDoc(trip.userId, alertType, "trip", trip.id)}
  /\ tAlerted' = [tAlerted EXCEPT ![p] = Append(@, Head(tQueue[p]).id)]
  /\ tPc' = [tPc EXCEPT ![p] = nextPc]
  /\ UNCHANGED <<extVars, now, sosOnly, trips, tripIsRunning, monitoringJob, cleanupJob, tripOps,
                 tNow, tQueue>>

\* triggerEmergencyAlert after the alert is stored: the user's contacts are
\* loaded and notified, then isEmergencyContactsNotified is set and saved; a
\* user without contacts returns before that
NotifyTripContacts(p, atPc, loopPc, afterPc) ==
  /\ tPc[p] = atPc
  /\ LET trip == Head(tQueue[p])
         local == [trip EXCEPT !.isEmergencyContactsNotified = TRUE]
     IN IF users[trip.userId].emergencyContacts = 0
             \/ trip.isEmergencyContactsNotified
             \/ PreSaveRejects(local)
          THEN UNCHANGED trips
          ELSE trips' = [trips EXCEPT ![trip.id] =
                            SavedDoc(@, trip, Timestamps(trip, PreSave(local, FALSE)))]
  /\ NextTrip(p, loopPc, afterPc)
  /\ UNCHANGED <<extVars, sosVars, tripIsRunning, monitoringJob, cleanupJob, tripOps, tNow,
                 tAlerted>>

OverdueAlert(p) ==
  /\ tPc[p] = "overdueAlert"
  /\ CreateTripAlert(p, "overdueAlert", "overdue", "overdueNotify")

OverdueNotify(p) ==
  /\ tPc[p] = "overdueNotify"
  /\ NotifyTripContacts(p, "overdueNotify", "overdueSave", "findLocation")

\* checkLocationTimeouts: await TripEvent.findTripsNeedingLocationCheck()
FindLocationTimeouts(p) ==
  /\ tPc[p] = "findLocation"
  /\ LoadTrips(p, findTripsNeedingLocationCheck, "locationSave", "findActivate")
  /\ UNCHANGED <<extVars, sosVars, trips, tripIsRunning, monitoringJob, cleanupJob, tripOps,
                 tNow, tAlerted>>

\* Math.floor(timeSinceUpdate / (1000 * 60)) against the 'now' of the cycle
TimeoutMinutes(trip, at) ==
  IF trip.lastLocationUpdate # NoTime THEN at - trip.lastLocationUpdate
                                      ELSE at - trip.startTime

\* checkLocationTimeouts, lines 144-159: the comparison, then updateStatus,
\* addAlert, await trip.save()
LocationSave(p) ==
  /\ tPc[p] = "locationSave"
  /\ LET trip == Head(tQueue[p])
         timeoutMinutes == TimeoutMinutes(trip, tNow[p])
         thresholdMinutes == trip.locationTimeoutMinutes
         local == addAlert(updateStatus(trip, "alert_triggered"),
                           HistoryEntry("location_timeout", "No location update", "", ""))
     IN IF ~(timeoutMinutes >= thresholdMinutes)
          THEN /\ NextTrip(p, "locationSave", "findActivate")
               /\ UNCHANGED trips
          ELSE IF trip.status # "active"
          THEN /\ tPc' = [tPc EXCEPT ![p] = "locationAlert"]
               /\ UNCHANGED <<trips, tQueue>>
          ELSE IF PreSaveRejects(local)
          THEN /\ AbandonPass(p, "findActivate")
               /\ UNCHANGED trips
          ELSE /\ SaveInHand(p, PreSave(local, FALSE))
               /\ tPc' = [tPc EXCEPT ![p] = "locationAlert"]
  /\ UNCHANGED <<extVars, sosVars, tripIsRunning, monitoringJob, cleanupJob, tripOps, tNow,
                 tAlerted>>

LocationAlert(p) ==
  /\ tPc[p] = "locationAlert"
  /\ CreateTripAlert(p, "locationAlert", "location_timeout", "locationNotify")

LocationNotify(p) ==
  /\ tPc[p] = "locationNotify"
  /\ NotifyTripContacts(p, "locationNotify", "locationSave", "findActivate")

\* updateTripStatuses: the first TripEvent.find, with the 'now' of the cycle
FindTripsToActivate(p) ==
  /\ tPc[p] = "findActivate"
  /\ LoadTrips(p, tripsToActivate(tNow[p]), "activateSave", "findMissed")
  /\ UNCHANGED <<extVars, sosVars, trips, tripIsRunning, monitoringJob, cleanupJob, tripOps,
                 tNow, tAlerted>>

\* updateTripStatuses: one document of a loop, updateStatus then await save;
\* a rejected save ends checkActiveTrips through the catch
StatusSave(p, atPc, newStatus, afterPc) ==
  /\ tPc[p] = atPc
  /\ LET local == updateStatus(Head(tQueue[p]), newStatus)
     IN IF PreSaveRejects(local)
          THEN /\ AbandonPass(p, "idle")
               /\ UNCHANGED trips
          ELSE /\ trips' = [trips EXCEPT ![local.id] =
                              SavedDoc(@, Head(tQueue[p]),
                                       Timestamps(Head(tQueue[p]), PreSave(local, FALSE)))]
               /\ NextTrip(p, atPc, afterPc)
  /\ UNCHANGED <<extVars, sosVars, tripIsRunning, monitoringJob, cleanupJob, tripOps, tNow,
                 tAlerted>>

ActivateSave(p) ==
  /\ tPc[p] = "activateSave"
  /\ StatusSave(p, "activateSave", "active", "findMissed")

\* updateTripStatuses: the second TripEvent.find
FindTripsToMarkMissed(p) ==
  /\ tPc[p] = "findMissed"
  /\ LoadTrips(p, tripsToMarkMissed(tNow[p]), "missedSave", "idle")
  /\ UNCHANGED <<extVars, sosVars, trips, tripIsRunning, monitoringJob, cleanupJob, tripOps,
                 tNow, tAlerted>>

MissedSave(p) ==
  /\ tPc[p] = "missedSave"
  /\ StatusSave(p, "missedSave", "missed", "idle")

\* ------------------------------------------------------ routes/tripEvents.js

\* the request bodies of these scenarios; NoTime, "none" and 0 stand for a
\* field that is not in the body
CreateBodies ==
  {[startTime |-> 0, endTime |-> e, threshold |-> th] : e \in {20, 50}, th \in {0, 10, 40}}
    \cup {[startTime |-> 20, endTime |-> 20, threshold |-> 0]}

EmptyBody == [status |-> "none", startTime |-> NoTime, endTime |-> NoTime, threshold |-> 0]

PatchBodies ==
  {[EmptyBody EXCEPT !.status = s] : s \in Statuses}
    \cup {[EmptyBody EXCEPT !.startTime = 20], [EmptyBody EXCEPT !.endTime = 50],
          [EmptyBody EXCEPT !.endTime = 0], [EmptyBody EXCEPT !.threshold = 10]}

\* POST /create: the validators refuse endTime <= startTime; the threshold
\* defaults to 30; tripEvent.save() runs the save hook on a new document
CreateTrip(t, startTime, endTime, threshold) ==
  /\ trips[t].status = "absent"
  /\ LET tripEvent == NewTripEvent(t, startTime, endTime,
                                   IF threshold # 0 THEN threshold
                                                    ELSE DefaultLocationTimeoutMinutes)
     IN IF endTime <= startTime \/ PreSaveRejects(tripEvent)
          THEN UNCHANGED trips
          ELSE trips' = [trips EXCEPT ![t] = PreSave(tripEvent, TRUE)]
  /\ UNCHANGED <<extVars, sosVars, tripIsRunning, monitoringJob, cleanupJob, tripOps, tPc,
                 tNow, tQueue, tAlerted>>

\* PATCH /update/:tripId
PatchUpdate(t, status, startTime, endTime, threshold) ==
  /\ tripOps < MaxTripOps
  /\ LET tripEvent == trips[t]
         newStartTime == IF startTime # NoTime THEN startTime ELSE tripEvent.startTime
         newEndTime == IF endTime # NoTime THEN endTime ELSE tripEvent.endTime
         withStatus == IF status # "none" THEN updateStatus(tripEvent, status) ELSE tripEvent
         assigned == [withStatus EXCEPT
                        !.startTime = newStartTime,
                        !.endTime = newEndTime,
                        !.locationTimeoutMinutes = IF threshold # 0 THEN threshold ELSE @]
         timesModified == newStartTime # tripEvent.startTime \/ newEndTime # tripEvent.endTime
     IN IF tripEvent.status = "absent" \/ ~tripEvent.isActive      \* 404
             \/ tripEvent.status \in {"completed", "cancelled"}    \* 400
             \/ ((startTime # NoTime \/ endTime # NoTime) /\ newEndTime <= newStartTime)
             \/ PreSaveRejects(assigned)                           \* 500
          THEN UNCHANGED <<trips, tripOps>>
          ELSE /\ trips' = [trips EXCEPT ![t] =
                              Timestamps(tripEvent, PreSave(assigned, timesModified))]
               /\ tripOps' = tripOps + 1
  /\ UNCHANGED <<extVars, sosVars, tripIsRunning, monitoringJob, cleanupJob, tPc, tNow, tQueue,
                 tAlerted>>

\* PATCH /location/:tripId answers 404 'Trip event not found' or 400 'Can only
\* update location for active trips'
LocationPingRefused(tripEvent) ==
  \/ tripEvent.status = "absent" \/ ~tripEvent.isActive          \* 404
  \/ tripEvent.status # "active"                                  \* 400

\* PATCH /location/:tripId: only for a trip whose status is 'active'
PatchLocation(t, place) ==
  /\ tripOps < MaxTripOps
  /\ LET tripEvent == trips[t]
     IN IF LocationPingRefused(tripEvent)
             \/ PreSaveRejects(tripEvent)                          \* 500
          THEN UNCHANGED <<trips, tripOps>>
          ELSE /\ trips' = [trips EXCEPT ![t] =
                              Timestamps(tripEvent,
                                         PreSave(updateLocation(tripEvent, place), FALSE))]
               /\ tripOps' = tripOps + 1
  /\ UNCHANGED <<extVars, sosVars, tripIsRunning, monitoringJob, cleanupJob, tPc, tNow, tQueue,
                 tAlerted>>

\* DELETE /:tripId: findOne({isActive: true}), isActive = false,
\* updateStatus('cancelled'), save; the status found is not looked at
DeleteTrip(t) ==
  /\ tripOps < MaxTripOps
  /\ LET tripEvent == trips[t]
         cancelled == updateStatus([tripEvent EXCEPT !.isActive = FALSE], "cancelled")
     IN IF tripEvent.status = "absent" \/ ~tripEvent.isActive      \* 404
             \/ PreSaveRejects(cancelled)                          \* 500
          THEN UNCHANGED <<trips, tripOps>>
          ELSE /\ trips' = [trips EXCEPT ![t] = Timestamps(tripEvent, PreSave(cancelled, FALSE))]
               /\ tripOps' = tripOps + 1
  /\ UNCHANGED <<extVars, sosVars, tripIsRunning, monitoringJob, cleanupJob, tPc, tNow, tQueue,
                 tAlerted>>

\* the clock of the trip scenarios
TripTimePasses ==
  /\ now + TripStep <= MaxTripTime
  /\ now' = now + TripStep
  /\ UNCHANGED <<extVars, sosOnly, sosAlerts, tripVars>>

TripInit ==
  /\ trips = [t \in TripIds |-> AbsentTrip(t)]
  /\ tripIsRunning = FALSE
  /\ monitoringJob = "null"
  /\ cleanupJob = "null"
  /\ tripOps = 0
  /\ tPc = [p \in TripProcs |-> "idle"]
  /\ tNow = [p \in TripProcs |-> 0]
  /\ tQueue = [p \in TripProcs |-> <<>>]
  /\ tAlerted = [p \in TripProcs |-> <<>>]

\* ---------------------------------------------------------- specifications


\* ------------------------------------------------------- cleanupOldTrips

\* the filter of the updateMany: status in completed / cancelled / missed,
\* updatedAt before thirtyDaysAgo, isActive true
OldTrip(doc) ==
  /\ doc.status \in {"completed", "cancelled", "missed"}
  /\ doc.updatedAt < now - ThirtyDays
  /\ doc.isActive

\* TripEvent.updateMany(filter, {$set: {isActive: false}}): the matched
\* documents are written in the collection, timestamps sets their updatedAt
cleanupOldTrips ==
  [t \in TripIds |-> IF OldTrip(trips[t])
                       THEN [trips[t] EXCEPT !.isActive = FALSE, !.updatedAt = now]
                       ELSE trips[t]]

\* the callback of cron.schedule('0 2 * * *'): await this.cleanupOldTrips()
CleanupCronTick ==
  /\ cleanupJob = "scheduled"
  /\ trips' = cleanupOldTrips
  /\ UNCHANGED <<extVars, sosVars, tripIsRunning, monitoringJob, cleanupJob, tripOps, tPc,
                 tNow, tQueue, tAlerted>>

\* fifteen days go by
RetentionTimePasses ==
  /\ now + RetentionStep <= MaxRetentionTime
  /\ now' = now + RetentionStep
  /\ UNCHANGED <<extVars, sosOnly, sosAlerts, tripVars>>

\* ------------------------------------------------- the trip event controller

\* bodies handed to updateEvent
UpdateBodies == {[EmptyBody EXCEPT !.endTime = 0], [EmptyBody EXCEPT !.startTime = 50]}

\* exports.updateEvent: TripEvent.findByIdAndUpdate(id, req.body, {new: true})
\* sets the fields of the body on the stored document; no validator and no
\* save hook runs, isActive and status are not looked at; updatedAt is set
UpdateEvent(t, startTime, endTime) ==
  /\ tripOps < MaxTripOps
  /\ trips[t].status # "absent"                                    \* else 404
  /\ trips' = [trips EXCEPT ![t].startTime = IF startTime # NoTime THEN startTime ELSE @,
                            ![t].endTime = IF endTime # NoTime THEN endTime ELSE @,
                            ![t].updatedAt = now]
  /\ tripOps' = tripOps + 1
  /\ UNCHANGED <<extVars, sosVars, tripIsRunning, monitoringJob, cleanupJob, tPc, tNow, tQueue,
                 tAlerted>>

\* ------------------------------------------- User.js, one document in detail

\* the user whose document is followed field by field
ProfileUser == "u0"

\* calculateDeviationFromDefault returns null
NoDeviation == -1

\* new User({name, email, phone, password}): the schema defaults
NewUser ==
  [isActive |-> TRUE,
   settings |-> [autoSOSEnabled |-> TRUE,
                 deviationThresholdMeters |-> DefaultDeviationThresholdMeters,
                 inactivityThresholdMinutes |-> DefaultInactivityThresholdMinutes],
   defaultLocation |-> NoLocation,
   lastKnownLocation |-> NoLocation,
   lastActiveAt |-> now]

\* userSchema.methods.updateActivity
updateActivity(user) == [user EXCEPT !.lastActiveAt = now]

\* userSchema.methods.updateLastKnownLocation
updateLastKnownLocation(user, place) ==
  [user EXCEPT !.lastKnownLocation = place, !.lastActiveAt = now]

\* userSchema.methods.setDefaultLocation
setDefaultLocation(user, place) == [user EXCEPT !.defaultLocation = place]

\* userSchema.methods.isInactive: no lastActiveAt, or strictly more than the
\* threshold ago ('|| 30' replaces a threshold of 0)
isInactive(user) ==
  IF user.lastActiveAt = NoTime THEN TRUE
  ELSE LET inactivityThreshold == IF user.settings.inactivityThresholdMinutes = 0
                                    THEN DefaultInactivityThresholdMinutes
                                    ELSE user.settings.inactivityThresholdMinutes
       IN now - user.lastActiveAt > inactivityThreshold

\* a test that takes only null for absent
FalsyNullOnly(coordinate) == coordinate = NoCoordinate

\* '!loc?.latitude || !loc?.longitude': null and 0 are both falsy
Falsy(coordinate) == coordinate = NoCoordinate \/ coordinate = 0

\* userSchema.methods.calculateDistance (Haversine): on one meridian the
\* distance is R * dLat, 111 m for a thousandth of a degree
calculateDistance(lat1, lon1, lat2, lon2) ==
  111 * (IF lat2 >= lat1 THEN lat2 - lat1 ELSE lat1 - lat2)

\* userSchema.methods.calculateDeviationFromDefault
calculateDeviationFromDefault(user) ==
  IF \/ Falsy(user.defaultLocation.latitude) \/ Falsy(user.defaultLocation.longitude)
     \/ Falsy(user.lastKnownLocation.latitude) \/ Falsy(user.lastKnownLocation.longitude)
    THEN NoDeviation
    ELSE calculateDistance(user.defaultLocation.latitude, user.defaultLocation.longitude,
                           user.lastKnownLocation.latitude, user.lastKnownLocation.longitude)

\* userSchema.methods.hasLocationDeviated
hasLocationDeviated(user) ==
  LET deviationDistance == calculateDeviationFromDefault(user)
      threshold == IF user.settings.deviationThresholdMeters = 0
                     THEN DefaultDeviationThresholdMeters
                     ELSE user.settings.deviationThresholdMeters
  IN IF deviationDistance = NoDeviation THEN FALSE ELSE deviationDistance > threshold

\* what shouldTriggerAutoSOS reads of a document: the setting and the outcome
\* of isInactive() and hasLocationDeviated()
Evaluated(user) ==
  [autoSOSEnabled |-> user.settings.autoSOSEnabled,
   inactive |-> isInactive(user),
   deviated |-> hasLocationDeviated(user)]

\* ------------------------------------------ autoSOSService.js, the profile

Clamp(lo, hi, v) == IF v < lo THEN lo ELSE IF v > hi THEN hi ELSE v

\* PUT /auto-sos/settings bodies that pass the validators; Absent = not sent
Absent == -1
SettingsBodies ==
  {[autoSOSEnabled |-> "true", deviationThresholdMeters |-> Absent,
    inactivityThresholdMinutes |-> Absent],
   [autoSOSEnabled |-> "false", deviationThresholdMeters |-> Absent,
    inactivityThresholdMinutes |-> Absent],
   [autoSOSEnabled |-> "absent", deviationThresholdMeters |-> 1000,
    inactivityThresholdMinutes |-> Absent],
   [autoSOSEnabled |-> "absent", deviationThresholdMeters |-> Absent,
    inactivityThresholdMinutes |-> 60]}

\* updateSOSSettings(userId, settings)
UpdateSOSSettings(body) ==
  /\ profile' =
       [profile EXCEPT
          !.settings.autoSOSEnabled =
             IF body.autoSOSEnabled = "absent" THEN @ ELSE body.autoSOSEnabled = "true",
          !.settings.deviationThresholdMeters =
             IF body.deviationThresholdMeters = Absent THEN @
             ELSE Clamp(100, 5000, body.deviationThresholdMeters),
          !.settings.inactivityThresholdMinutes =
             IF body.inactivityThresholdMinutes = Absent THEN @
             ELSE Clamp(5, 180, body.inactivityThresholdMinutes)]
  /\ profile' # profile
  /\ everEnabled' = (everEnabled \/ body.autoSOSEnabled = "true")
  /\ UNCHANGED <<notifyVars, otpVars, hrReturn, sosVars, tripVars, sosStatus>>

\* updateUserSafeLocation: user.setDefaultLocation(latitude, longitude, address)
UpdateUserSafeLocation(place) ==
  /\ profile' = setDefaultLocation(profile, place)
  /\ profile' # profile
  /\ UNCHANGED <<notifyVars, otpVars, hrReturn, sosVars, tripVars, sosStatus, everEnabled>>

\* POST /location/update: req.user.updateLastKnownLocation(...)
LocationUpdate(place) ==
  /\ profile' = updateLastKnownLocation(profile, place)
  /\ profile' # profile
  /\ UNCHANGED <<notifyVars, otpVars, hrReturn, sosVars, tripVars, sosStatus, everEnabled>>

\* POST /location/activity: req.user.updateActivity()
ActivityPing ==
  /\ profile' = updateActivity(profile)
  /\ profile' # profile
  /\ UNCHANGED <<notifyVars, otpVars, hrReturn, sosVars, tripVars, sosStatus, everEnabled>>

NoStatus ==
  [asked |-> FALSE, autoSOSEnabled |-> FALSE, isActive |-> TRUE,
   hasDefaultLocation |-> FALSE, hasLastKnownLocation |-> FALSE,
   deviationFromSafe |-> NoDeviation, deviationThresholdMeters |-> 0,
   shouldTriggerSOS |-> FALSE, sosReason |-> "none"]

\* getUserSOSStatus(userId): the settings and status it reports
GetUserSOSStatus ==
  /\ LET sosCheck == shouldTriggerAutoSOS(Evaluated(profile))
     IN sosStatus' =
          [asked |-> TRUE,
           autoSOSEnabled |-> profile.settings.autoSOSEnabled,
           isActive |-> ~isInactive(profile),
           hasDefaultLocation |-> ~(\/ Falsy(profile.defaultLocation.latitude)
                                     \/ Falsy(profile.defaultLocation.longitude)),
           hasLastKnownLocation |-> ~(\/ Falsy(profile.lastKnownLocation.latitude)
                                       \/ Falsy(profile.lastKnownLocation.longitude)),
           deviationFromSafe |-> calculateDeviationFromDefault(profile),
           deviationThresholdMeters |->
              IF profile.settings.deviationThresholdMeters = 0
                THEN DefaultDeviationThresholdMeters
                ELSE profile.settings.deviationThresholdMeters,
           shouldTriggerSOS |-> sosCheck.shouldTrigger,
           sosReason |-> sosCheck.reason]
  /\ sosStatus' # sosStatus
  /\ UNCHANGED <<notifyVars, otpVars, hrReturn, sosVars, tripVars, profile, everEnabled>>

\* One pass of checkAllUsersForAutoSOS over the profile: the query selects
\* it or not, checkUserForAutoSOS evaluates it and, for a new alert key,
\* triggerAutoSOS stores the alert, the key is marked and the timer armed.
ScanProfile ==
  /\ profile.isActive /\ profile.settings.autoSOSEnabled
  /\ LET sosCheck == shouldTriggerAutoSOS(Evaluated(profile))
         alertKey == AlertKey(ProfileUser, sosCheck.reason)
     IN IF ~sosCheck.shouldTrigger
          THEN /\ processedAlerts' = DeleteUserId(processedAlerts, ProfileUser)
               /\ UNCHANGED <<sosAlerts, timers>>
          ELSE IF alertKey \in processedAlerts
          THEN UNCHANGED <<processedAlerts, sosAlerts, timers>>
          ELSE /\ sosAlerts' = sosAlerts \cup {NewAlert(ProfileUser, sosCheck.reason, "scan")}
               /\ processedAlerts' = MarkProcessed(processedAlerts, alertKey)
               /\ timers' = timers \cup {[key |-> alertKey, at |-> now + CoolDownMinutes]}
  /\ sosAlerts' # sosAlerts
  /\ UNCHANGED <<notifyVars, otpVars, hrReturn, tripVars, profileVars, now, users, sosIsRunning, jobs,
                 orphans, manualCount,
                 sPc, sKind, sQueue, sCur>>

ProfileInit ==
  /\ profile = NewUser
  /\ sosStatus = NoStatus
  /\ everEnabled = FALSE

Init == SOSInit /\ TripInit /\ ProfileInit /\ NotifyInit /\ OtpInit

\* the users whose situation changes while the scheduler is watched
Movers == {"u1"}

\* one scan invocation resumes after an await
CycleStep ==
  \/ \E p \in Procs : FindUsers(p)
  \/ \E p \in Procs : CheckUser(p)
  \/ \E p \in Procs : CreateAlert(p)
  \/ \E p \in Procs : MarkAndArm(p)
  \/ \E p \in Procs : FinishCycle(p)

ClockStep ==
  \/ \E tm \in timers : TimerFires(tm)
  \/ AdvanceTime

UserStep ==
  \/ \E u \in Movers, d \in BOOLEAN : LocationPing(u, d)
  \/ \E u \in Movers : InactivityElapses(u)

\* the scheduler on its own: the ten-minute job and manual checks, one cycle
\* after the other, over two hours
ScanNext ==
  \/ StartMonitoring
  \/ MainTick
  \/ ManualSOSCheck
  \/ CycleStep
  \/ ClockStep
  \/ UserStep

SpecScan == Init /\ [][ScanNext]_vars

\* the main job with manual checks and stopMonitoring, at one instant
JobNext ==
  \/ StartMonitoring
  \/ MainTick
  \/ ManualSOSCheck
  \/ StopMonitoring
  \/ CycleStep
  \/ UserStep

SpecJob == Init /\ [][JobNext]_vars

\* the main job together with the two-minute high-risk job, at one instant
HighRiskNext ==
  \/ StartMonitoring
  \/ MainTick
  \/ StartHighRiskMonitoring
  \/ \E e \in BOOLEAN : SetHighRiskMonitoring(e)
  \/ HighRiskTick
  \/ CycleStep
  \/ UserStep

SpecHighRisk == Init /\ [][HighRiskNext]_vars

Outcomes == {"sent", "failed"}

\* the deliveries of the manual triggers
FanoutSteps ==
  \/ \E o \in Outcomes : ManualNotify(o)
  \/ ManualRespond
  \/ \E call \in fanouts, o \in Outcomes : FanoutStep(call, o)

\* the main job together with the two manual trigger routes, at one instant
TriggerNext ==
  \/ StartMonitoring
  \/ MainTick
  \/ CycleStep
  \/ UserStep
  \/ \E u \in Movers : ManualTriggerSOS(u)
  \/ \E u \in Movers : SOSTrigger(u)
  \/ FanoutSteps

SpecTrigger == Init /\ [][TriggerNext]_vars


\* the trip whose owner sends requests while the service is watched
WatchedTrips == {"t1"}

\* one checkActiveTrips invocation resumes after an await
TripCycleStep ==
  \/ \E p \in TripProcs : FindActiveTrips(p)
  \/ \E p \in TripProcs : FindOverdueTrips(p)
  \/ \E p \in TripProcs : OverdueSave(p)
  \/ \E p \in TripProcs : OverdueAlert(p)
  \/ \E p \in TripProcs : OverdueNotify(p)
  \/ \E p \in TripProcs : FindLocationTimeouts(p)
  \/ \E p \in TripProcs : LocationSave(p)
  \/ \E p \in TripProcs : LocationAlert(p)
  \/ \E p \in TripProcs : LocationNotify(p)
  \/ \E p \in TripProcs : FindTripsToActivate(p)
  \/ \E p \in TripProcs : ActivateSave(p)
  \/ \E p \in TripProcs : FindTripsToMarkMissed(p)
  \/ \E p \in TripProcs : MissedSave(p)

\* the requests of the trip's owner
TripRequestStep ==
  \/ \E t \in WatchedTrips, b \in CreateBodies :
       CreateTrip(t, b.startTime, b.endTime, b.threshold)
  \/ \E t \in WatchedTrips, b \in PatchBodies :
       PatchUpdate(t, b.status, b.startTime, b.endTime, b.threshold)
  \/ \E t \in WatchedTrips, pl \in Places : PatchLocation(t, pl)
  \/ \E t \in WatchedTrips : DeleteTrip(t)

\* a tick of the five-minute job that finds fewer than MaxOverlap cycles in flight
SpacedCronTick ==
  /\ Cardinality(TripCyclesInProgress) < MaxOverlap
  /\ TripCronTick

\* the started service with spaced ticks, the requests and the clock
TripNext ==
  \/ TripStart
  \/ SpacedCronTick
  \/ TripCycleStep
  \/ TripRequestStep
  \/ TripTimePasses

SpecTrip == Init /\ [][TripNext]_vars

\* the started service with spaced ticks while the owner of a trip with the
\* default threshold does nothing but delete it
OverdueNext ==
  \/ TripStart
  \/ SpacedCronTick
  \/ TripCycleStep
  \/ \E t \in WatchedTrips, b \in {c \in CreateBodies : c.threshold = 0} :
       CreateTrip(t, b.startTime, b.endTime, b.threshold)
  \/ \E t \in WatchedTrips : DeleteTrip(t)
  \/ TripTimePasses

SpecOverdue == Init /\ [][OverdueNext]_vars

\* the service started, stopped and checked by hand while trips run their course
TripJobNext ==
  \/ TripStart
  \/ TripStop
  \/ TripCronTick
  \/ ManualCheck
  \/ TripCycleStep
  \/ \E t \in WatchedTrips, b \in CreateBodies :
       CreateTrip(t, b.startTime, b.endTime, b.threshold)
  \/ TripTimePasses

SpecTripJob == Init /\ [][TripJobNext]_vars

\* one user from signup on: settings, safe location, location and activity
\* pings, status requests, and the scan looking at the user as time passes
ProfileNext ==
  \/ \E b \in SettingsBodies : UpdateSOSSettings(b)
  \/ \E pl \in Places : UpdateUserSafeLocation(pl)
  \/ \E pl \in Places : LocationUpdate(pl)
  \/ ActivityPing
  \/ GetUserSOSStatus
  \/ ScanProfile
  \/ ClockStep

SpecProfile == Init /\ [][ProfileNext]_vars

\* two trips created through the route, the controller's updateEvent and the
\* started service with spaced ticks
ControllerNext ==
  \/ TripStart
  \/ SpacedCronTick
  \/ TripCycleStep
  \/ \E t \in TripIds, b \in {c \in CreateBodies : c.threshold = 0} :
       CreateTrip(t, b.startTime, b.endTime, b.threshold)
  \/ \E t \in TripIds, b \in UpdateBodies : UpdateEvent(t, b.startTime, b.endTime)
  \/ TripTimePasses

SpecController == Init /\ [][ControllerNext]_vars


\* a trip whose owner reports positions while the started service scans it
DestinationNext ==
  \/ TripStart
  \/ SpacedCronTick
  \/ TripCycleStep
  \/ \E t \in WatchedTrips, b \in {c \in CreateBodies : c.threshold = 0} :
       CreateTrip(t, b.startTime, b.endTime, b.threshold)
  \/ \E t \in WatchedTrips, pl \in Places : PatchLocation(t, pl)
  \/ TripTimePasses

SpecDestination == Init /\ [][DestinationNext]_vars

\* no checkActiveTrips invocation is in progress
AllIdle == TripCyclesInProgress = {}

\* a tick of the five-minute job that arrives after the previous cycle returned
IdleCronTick == AllIdle /\ TripCronTick

\* the PATCH /update bodies sent between two cycles: the trip is set to active
\* by hand, or its start is moved
RepeatBodies == {b \in PatchBodies : b.status = "active" \/ b.startTime # NoTime}

\* the requests sent between two cycles: both trips are created, the owner of
\* the watched one goes on sending requests
IdleRequestStep ==
  \/ /\ AllIdle
     /\ \E t \in TripIds, b \in {c \in CreateBodies : c.threshold = 0} :
          CreateTrip(t, b.startTime, b.endTime, b.threshold)
  \/ /\ AllIdle
     /\ \E t \in WatchedTrips, b \in RepeatBodies :
          PatchUpdate(t, b.status, b.startTime, b.endTime, b.threshold)
  \/ /\ AllIdle
     /\ \E t \in WatchedTrips, pl \in Places : PatchLocation(t, pl)
  \/ /\ AllIdle
     /\ \E t \in WatchedTrips : DeleteTrip(t)
  \/ /\ AllIdle
     /\ \E t \in WatchedTrips, b \in UpdateBodies : UpdateEvent(t, b.startTime, b.endTime)

\* the clock moves between two cycles
IdleTimePasses == AllIdle /\ TripTimePasses

\* cycles that run one after the other, each at one instant, with the
\* requests and the clock only between them
RepeatNext ==
  \/ TripStart
  \/ IdleCronTick
  \/ TripCycleStep
  \/ IdleRequestStep
  \/ IdleTimePasses

SpecRepeat == Init /\ [][RepeatNext]_vars

\* one user whose safe location may lie on the equator: settings, safe
\* location, location and activity pings and status requests as time passes
SafeZoneNext ==
  \/ \E b \in SettingsBodies : UpdateSOSSettings(b)
  \/ \E pl \in Places \cup {Equator} : UpdateUserSafeLocation(pl)
  \/ \E pl \in Places : LocationUpdate(pl)
  \/ ActivityPing
  \/ GetUserSOSStatus
  \/ AdvanceTime

SpecSafeZone == Init /\ [][SafeZoneNext]_vars

\* the manual triggers, their alerts being resolved, and the hourly cleanup
CleanupNext ==
  \/ StartMonitoring
  \/ CleanupTick
  \/ \E u \in Movers : SOSTrigger(u)
  \/ \E call \in fanouts, o \in Outcomes : FanoutStep(call, o)
  \/ \E a \in sosAlerts : ResolveAlert(a)
  \/ CleanupTimePasses

SpecCleanup == Init /\ [][CleanupNext]_vars

\* the PATCH /update bodies that end a trip by hand
ArchiveBodies == {b \in PatchBodies : b.status = "completed"}

\* a trip that runs its course or is ended by its owner, the started service
\* with spaced ticks, and the daily cleanup as the weeks pass
ArchiveNext ==
  \/ TripStart
  \/ SpacedCronTick
  \/ TripCycleStep
  \/ CleanupCronTick
  \/ \E t \in WatchedTrips, b \in {c \in CreateBodies : c.threshold = 0} :
       CreateTrip(t, b.startTime, b.endTime, b.threshold)
  \/ \E t \in WatchedTrips, b \in ArchiveBodies :
       PatchUpdate(t, b.status, b.startTime, b.endTime, b.threshold)
  \/ \E t \in WatchedTrips : DeleteTrip(t)
  \/ TripTimePasses
  \/ RetentionTimePasses

SpecArchive == Init /\ [][ArchiveNext]_vars

\* a query of a scan invocation rejects
FaultStep ==
  \/ \E p \in Procs : FindUsersFails(p)
  \/ \E p \in Procs : CreateAlertFails(p)
  \/ \E p \in Procs : ContactsFindFails(p)

\* the ten-minute job and manual checks, one cycle after the other, while
\* queries of the scan may reject and a user falls silent and pings again
FaultNext ==
  \/ StartMonitoring
  \/ MainTick
  \/ ManualSOSCheck
  \/ CycleStep
  \/ FaultStep
  \/ ClockStep
  \/ \E u \in Movers : LocationPing(u, FALSE)
  \/ \E u \in Movers : InactivityElapses(u)

SpecFault == Init /\ [][FaultNext]_vars

\* one user whose safe location and reported positions may have a coordinate
\* that is 0: settings, locations, activity pings and status requests
ZeroNext ==
  \/ \E b \in SettingsBodies : UpdateSOSSettings(b)
  \/ \E pl \in Places \cup ZeroPlaces : UpdateUserSafeLocation(pl)
  \/ \E pl \in Places \cup ZeroPlaces : LocationUpdate(pl)
  \/ ActivityPing
  \/ GetUserSOSStatus
  \/ AdvanceTime

SpecZero == Init /\ [][ZeroNext]_vars

\* the alerts of the manual trigger route and the cancel requests sent for
\* them, by their owner or by another user, as time passes
CancelNext ==
  \/ \E u \in Movers : SOSTrigger(u)
  \/ \E a \in sosAlerts, by \in Users, reason \in CancelReasons : CancelFind(a, by, reason)
  \/ \E req \in cancelReqs : CancelSave(req)
  \/ AdvanceTime

SpecCancel == Init /\ [][CancelNext]_vars

\* one e-mail address: OTPs are sent and resent, the user signs up, verify
\* requests with a right or a wrong code overlap, and minutes pass
OtpNext ==
  \/ \E otp \in Codes : SendOTP(otp)
  \/ \E otp \in Codes : ResendOTP(otp)
  \/ Signup
  \/ \E otp \in Codes : VerifyFind(otp)
  \/ \E req \in verifyReqs : VerifySave(req)
  \/ RemoveExpiredOtp
  \/ OtpTimePasses

SpecOtp == Init /\ [][OtpNext]_vars

\* a checkActiveTrips invocation over an empty collection: every query resolves
TripQueryStep ==
  \/ \E p \in TripProcs : FindActiveTrips(p)
  \/ \E p \in TripProcs : FindOverdueTrips(p)
  \/ \E p \in TripProcs : FindLocationTimeouts(p)
  \/ \E p \in TripProcs : FindTripsToActivate(p)
  \/ \E p \in TripProcs : FindTripsToMarkMissed(p)

\* both services started and stopped in any order while their scheduled
\* tasks tick, at one instant
StartStopNext ==
  \/ StartMonitoring
  \/ StopMonitoring
  \/ MainTick
  \/ CycleStep
  \/ \E u \in Movers : InactivityElapses(u)
  \/ TripStart
  \/ TripStop
  \/ TripCronTick
  \/ TripQueryStep

SpecStartStop == Init /\ [][StartStopNext]_vars
Next ==
  \/ ScanNext \/ JobNext \/ HighRiskNext \/ TriggerNext
  \/ TripNext \/ OverdueNext \/ TripJobNext
  \/ ProfileNext \/ ControllerNext \/ DestinationNext \/ RepeatNext
  \/ SafeZoneNext \/ CleanupNext \/ ArchiveNext
  \/ FaultNext \/ ZeroNext \/ CancelNext \/ OtpNext \/ StartStopNext

Spec == Init /\ [][Next]_vars

\* ------------------------------------------------- claims on the SOS job

Abs(x) == IF x < 0 THEN -x ELSE x

\* C1: at most one full user-scan cycle (checkAllUsersForAutoSOS) is in
\* progress at any time, for every interleaving of scheduled ticks,
\* manualSOSCheck calls and stopMonitoring calls.
C1_AtMostOneCycle == Cardinality(CyclesInProgress) <= 1

ScanAlerts == {a \in sosAlerts : a.source = "scan"}

\* two alerts of the scan for one user and one condition kind lie at least one
\* cool-down apart
C3_OnePerWindow ==
  \A a, b \in ScanAlerts :
    (a # b /\ a.userId = b.userId /\ a.kind = b.kind)
      => Abs(a.createdAt - b.createdAt) >= CoolDownMinutes

\* a marked key is forgotten at the latest one cool-down after it was marked
C3_KeyExpires ==
  \A k \in processedAlerts :
    \E tm \in timers : tm.key = k /\ now <= tm.at /\ tm.at <= now + CoolDownMinutes

\* an evaluation that finds the condition true creates an alert exactly when
\* the key is not marked
C3_Evaluation ==
  \A p \in Procs :
    /\ (sPc[p] = "check" /\ (sPc'[p] # "check" \/ sQueue'[p] # sQueue[p]))
         => LET user == Head(sQueue[p])
                sosCheck == shouldTriggerAutoSOS(user)
            IN (sPc'[p] = "create") <=>
                 (sosCheck.shouldTrigger
                    /\ AlertKey(user.id, sosCheck.reason) \notin processedAlerts)
    /\ (sPc[p] = "create" /\ sPc'[p] # "create")
         => \E a \in sosAlerts' \ sosAlerts :
              /\ sosAlerts' = sosAlerts \cup {a}
              /\ a.userId = sCur[p].user /\ a.kind = sCur[p].reason
              /\ a.createdAt = now /\ a.status = "active"
    /\ sPc[p] # "create" => (sPc'[p] = sPc[p] \/ sosAlerts' = sosAlerts)

C4_AtomicCheckAndMark ==
  \A p, q \in Procs :
    (p # q /\ sPc[p] \in {"create", "notify"} /\ sPc[q] \in {"create", "notify"})
      => sCur[p] # sCur[q]

\* C5: a user never has two unresolved alerts of the same kind created less
\* than one cool-down apart, whatever the scan cycles and manual triggers.
C5_OneUnresolvedPerWindow ==
  \A a, b \in sosAlerts :
    (a # b /\ a.userId = b.userId /\ a.kind = b.kind
       /\ a.status = "active" /\ b.status = "active")
      => Abs(a.createdAt - b.createdAt) >= CoolDownMinutes


\* ------------------------------------------- claims on the trip service

\* C2: TripMonitoringService never has two checkActiveTrips cycles in progress
\* at once, whether a cycle was started by the cron tick, by the initial check
\* of start() or by manualCheck().
C2_AtMostOneTripCycle == Cardinality(TripCyclesInProgress) <= 1

\* invocation p resumes in this step
Resumes(p) == tPc'[p] # tPc[p] \/ tQueue'[p] # tQueue[p]

\* a stored trip that is not soft-deleted, is 'active' and whose endTime has passed
OverdueNow(t) ==
  trips[t].status = "active" /\ trips[t].isActive /\ trips[t].endTime < now

\* the overdue query hands the loop every such trip, once, and nothing else
C6_Found(p) ==
  (tPc[p] = "findOverdue" /\ Resumes(p))
    => /\ \A t \in TripIds :
            Cardinality({i \in 1..Len(tQueue'[p]) : tQueue'[p][i] = trips[t]})
              = IF OverdueNow(t) THEN 1 ELSE 0
       /\ \A i \in 1..Len(tQueue'[p]) : OverdueNow(tQueue'[p][i].id)

\* the trip in hand is stored as alert_triggered, with the status change and
\* the overdue reason appended to its alertHistory
C6_Transition(p) ==
  (tPc[p] = "overdueSave" /\ Resumes(p))
    => LET t == Head(tQueue[p]).id
           added == SubSeq(trips'[t].alertHistory, Len(trips[t].alertHistory) + 1,
                           Len(trips'[t].alertHistory))
       IN /\ trips'[t].status = "alert_triggered"
          /\ added = <<HistoryEntry("system", "Status changed", "active", "alert_triggered"),
                       HistoryEntry("system", "Trip became overdue", "", "")>>
          /\ tPc'[p] = "overdueAlert"

\* then one SOSAlert is stored for it, for its owner
C6_Alert(p) ==
  (tPc[p] = "overdueAlert" /\ Resumes(p))
    => LET trip == Head(tQueue[p])
       IN \E a \in sosAlerts' \ sosAlerts :
            /\ sosAlerts' = sosAlerts \cup {a}
            /\ a.tripId = trip.id /\ a.userId = trip.userId
            /\ a.kind = "overdue" /\ a.status = "active" /\ a.createdAt = now

\* no step of an invocation other than its two alert steps stores an SOSAlert
C6_NoOtherAlert(p) ==
  (Resumes(p) /\ tPc[p] \notin {"overdueAlert", "locationAlert"})
    => sosAlerts' = sosAlerts

\* one invocation stores at most one SOSAlert for a trip
C6_OnePerTick ==
  \A p \in TripProcs :
    \A i, j \in 1..Len(tAlerted[p]) : tAlerted[p][i] = tAlerted[p][j] => i = j

SinceLastLocation(doc, at) ==
  at - (IF doc.lastLocationUpdate = NoTime THEN doc.startTime ELSE doc.lastLocationUpdate)

\* C7: on a scan tick an active trip inside its time window gets a
\* location_timeout alert exactly when the time since its last location update
\* (since startTime when there is none) is greater than its own
\* locationTimeoutMinutes; at or below the threshold it is not alerted.
C7_LocationTimeout ==
  [][\A p \in TripProcs :
       /\ (tPc[p] = "findLocation" /\ Resumes(p) /\ tNow[p] = now)
            => \A t \in TripIds :
                 (/\ trips[t].status = "active" /\ trips[t].isActive
                  /\ trips[t].startTime <= now /\ now <= trips[t].endTime
                  /\ SinceLastLocation(trips[t], now) > trips[t].locationTimeoutMinutes)
                   => \E i \in 1..Len(tQueue'[p]) : tQueue'[p][i].id = t
       /\ (tPc[p] = "locationSave" /\ tPc'[p] = "locationAlert")
            => LET trip == Head(tQueue[p])
               IN SinceLastLocation(trip, tNow[p]) > trip.locationTimeoutMinutes]_vars

\* C8: once a trip's status is completed or cancelled no operation changes it
\* again.
C8_TerminalIsFinal ==
  [][\A t \in TripIds :
       trips[t].status \in {"completed", "cancelled"}
         => trips'[t].status = trips[t].status]_vars

LifecycleEdges ==
  {<<"scheduled", "active">>, <<"scheduled", "missed">>,
   <<"scheduled", "completed">>, <<"scheduled", "cancelled">>,
   <<"active", "completed">>, <<"active", "missed">>, <<"active", "alert_triggered">>,
   <<"active", "cancelled">>,
   <<"missed", "completed">>, <<"missed", "cancelled">>,
   <<"alert_triggered", "completed">>, <<"alert_triggered", "cancelled">>}

\* C9: every change of a trip's status follows an edge of the lifecycle
\* scheduled -> active -> {completed, missed, alert_triggered} ->
\* {completed, cancelled} (cancel and complete also from scheduled and active,
\* missed also from scheduled); a trip never moves back to scheduled or active.
C9_LifecycleEdgesOnly ==
  [][\A t \in TripIds :
       (trips[t].status # "absent" /\ trips'[t].status # trips[t].status)
         => <<trips[t].status, trips'[t].status>> \in LifecycleEdges]_vars

\* C10: when the owner has cancelled a trip after an invocation loaded it for
\* an alert, the invocation's save finds the stored syncVersion different from
\* the loaded one and is rejected: the stored trip stays as the cancel left it.
C10_StaleSaveRejected ==
  [][\A p \in TripProcs :
       (/\ tPc[p] \in {"overdueSave", "locationSave"}
        /\ Resumes(p)
        /\ trips[Head(tQueue[p]).id].status = "cancelled"
        /\ ~trips[Head(tQueue[p]).id].isActive
        /\ trips[Head(tQueue[p]).id].syncVersion # Head(tQueue[p]).syncVersion)
         => trips'[Head(tQueue[p]).id] = trips[Head(tQueue[p]).id]]_vars


\* C11: the safe-zone evaluation reports no trigger whenever the user's
\* defaultLocation or lastKnownLocation is absent, whatever lastActiveAt is.
C11_NoTriggerWithoutLocations ==
  (sosStatus.asked /\ ~(sosStatus.hasDefaultLocation /\ sosStatus.hasLastKnownLocation))
    => ~sosStatus.shouldTriggerSOS

\* C12: when a user with auto-SOS enabled is both inactive beyond the
\* inactivity threshold and farther than the deviation threshold from the safe
\* location, the evaluation reports one trigger and its reason is inactivity.
C12_InactivityFirst ==
  (/\ sosStatus.asked
   /\ sosStatus.autoSOSEnabled
   /\ ~sosStatus.isActive
   /\ sosStatus.deviationFromSafe # NoDeviation
   /\ sosStatus.deviationFromSafe > sosStatus.deviationThresholdMeters)
    => (sosStatus.shouldTriggerSOS /\ sosStatus.sosReason = "inactivity")

\* a status request that found the user both inactive and outside the safe zone
C12_Witness ==
  /\ sosStatus.asked
  /\ sosStatus.autoSOSEnabled
  /\ ~sosStatus.isActive
  /\ sosStatus.deviationFromSafe > sosStatus.deviationThresholdMeters
  /\ sosStatus.sosReason = "inactivity"

\* C13: within one scan cycle a failure while saving or notifying for one
\* candidate, such as a trip whose save is rejected because endTime <= startTime,
\* is caught and the remaining candidates of the pass are still gone through:
\* a step of the loop that leaves a savable candidate behind the one in hand
\* keeps the rest of the queue.
C13_CandidateIsolation ==
  [][\A p \in TripProcs :
       (/\ tPc[p] \in {"overdueSave", "overdueAlert", "overdueNotify",
                       "locationSave", "locationAlert", "locationNotify"}
        /\ tPc'[p] # tPc[p]
        /\ \E i \in 2..Len(tQueue[p]) : ~PreSaveRejects(tQueue[p][i]))
         => \/ tQueue'[p] = Tail(tQueue[p])
            \/ (tQueue'[p] # <<>> /\ Tail(tQueue'[p]) = Tail(tQueue[p]))]_vars

\* C14: for an alert with several emergency contacts where delivery to one
\* contact fails, the ContactNotification row of every other contact leaves
\* pending: once the fanout of the alert has returned, none of them is pending.
C14_RowsLeavePending ==
  \A call \in fanouts :
    call.todo = <<>> =>
      \A i \in 1..Len(call.results) :
        call.results[i].status = "failed" =>
          \A row \in contactNotifications :
            (row.alert = call.alert /\ row.contactId # call.results[i].contactId)
              => row.notificationStatus # "pending"

\* C15: every alert, whether created by the auto-SOS scan, by the trip scan or
\* by a manual trigger, has exactly one ContactNotification row for each
\* emergency contact of its user.
C15_RowPerContact ==
  \A a \in sosAlerts :
    a.userId \in Users =>
      \A c \in 1..users[a.userId].emergencyContacts :
        Cardinality({row \in contactNotifications : row.alert = a /\ row.contactId = c}) = 1

\* C16: a manual SOS trigger whose alert was saved has returned a success
\* result with the alert active, without waiting for the contacts to be
\* notified, and no failed notification turns the response into an error.
C16_RespondsWithoutWaiting ==
  /\ \A r \in responses : r.success /\ r.alertStatus = "active"
  /\ \A a \in sosAlerts :
       a.source \in {"manualTriggerSOS", "POST /sos/trigger"}
         => \E r \in responses : r.alert = a

\* C17: no stored trip ever has endTime <= startTime, whatever creates and
\* updates (POST /create, PATCH /update, the controller's updateEvent) came before.
C17_EndAfterStart ==
  \A t \in TripIds : trips[t].status # "absent" => trips[t].endTime > trips[t].startTime

\* C18: after stop() of the trip service or stopMonitoring() of the SOS job has
\* returned no scheduled cycle starts until the service is started again, and
\* the call leaves a cycle in flight and the stored trips as they are, so that
\* the cycle runs to completion.
C18_NoCycleAfterStop ==
  [][/\ (\E p \in Procs : sKind[p] # "main" /\ sKind'[p] = "main")
          => jobs["main-sos-check"] = "scheduled"
     /\ TripCronTick => tripIsRunning
     /\ (StopMonitoring \/ TripStop) => UNCHANGED <<sPc, sQueue, sCur, tPc, tQueue, trips>>]_vars

\* C19: once the SOS monitoring jobs have been started, enableHighRiskMonitoring
\* switches the two-minute job on and disableHighRiskMonitoring switches it
\* off, the main job stays scheduled, and the value returned tells that the
\* sub-cycle is now in the requested state.
C19_HighRiskSwitch ==
  [][\A e \in BOOLEAN :
       (jobs["main-sos-check"] = "scheduled" /\ SetHighRiskMonitoring(e))
         => /\ (jobs'["high-risk-monitoring"] = "scheduled") = e
            /\ hrReturn'.result
            /\ jobs'["main-sos-check"] = "scheduled"]_vars


\* ---------------------------------- claims on the trip document's history

\* the entries a step appends to the stored alertHistory of trip t
AppendedHistory(t) ==
  SubSeq(trips'[t].alertHistory, Len(trips[t].alertHistory) + 1,
         Len(trips'[t].alertHistory))

\* C21: every step that changes the stored status of a trip appends exactly
\* one alertHistory entry, and that entry names the old and the new status;
\* no status change appends zero or two entries.
C21_OneEntryPerTransition ==
  [][\A t \in TripIds :
       (trips[t].status # "absent" /\ trips'[t].status # trips[t].status)
         => /\ Len(AppendedHistory(t)) = 1
            /\ AppendedHistory(t)[1].from = trips[t].status
            /\ AppendedHistory(t)[1].to = trips'[t].status]_vars

\* C22: syncVersion of a stored trip never decreases, and every step that
\* writes anything to a stored trip (status, alert entry, location, times,
\* thresholds, isEmergencyContactsNotified, the save hook's status reset)
\* leaves its syncVersion strictly greater than before.
C22_SyncVersionGrows ==
  [][\A t \in TripIds :
       /\ trips'[t].syncVersion >= trips[t].syncVersion
       /\ (trips[t].status # "absent" /\ trips'[t] # trips[t])
            => trips'[t].syncVersion > trips[t].syncVersion]_vars

\* C23: a scan tick raises a destination_mismatch alert for a trip exactly
\* when the trip has ended, its currentLocation is known, it is farther from
\* the destination than destinationToleranceMeters and its status is not
\* completed; the trip is then in alert_triggered.  Checked when a cycle
\* returns, for the trips that met the conditions before the cycle began.
C23_DestinationMismatch ==
  [][/\ \A a \in sosAlerts' \ sosAlerts :
          a.kind = "destination_mismatch"
            => \E t \in TripIds : a.tripId = t /\ shouldTriggerDestinationAlert(trips[t])
     /\ \A p \in TripProcs :
          (tPc[p] # "idle" /\ tPc'[p] = "idle")
            => \A t \in TripIds :
                 (/\ trips[t].status # "absent"
                  /\ shouldTriggerDestinationAlert(trips[t])
                  /\ trips[t].endTime < tNow[p]
                  /\ trips[t].lastLocationUpdate < tNow[p])
                   => /\ \E a \in sosAlerts' :
                           a.tripId = t /\ a.kind = "destination_mismatch"
                      /\ trips'[t].status = "alert_triggered"]_vars

\* the ids of the documents a query has just handed to invocation p
Loaded(p) == {tQueue'[p][i].id : i \in 1..Len(tQueue'[p])}

\* a stored trip that is still scheduled and not soft-deleted
ScheduledNow(t) == trips[t].status = "scheduled" /\ trips[t].isActive

\* C24: with 'now' the instant of the scan tick, the tick takes a scheduled
\* trip for activation exactly when startTime <= now <= endTime, for marking
\* as missed exactly when now > endTime, and leaves it scheduled when
\* now < startTime; the activation stores 'active', the marking 'missed'.
C24_ScheduledCases ==
  [][\A p \in TripProcs :
       /\ (tPc[p] = "findActivate" /\ Resumes(p))
            => \A t \in TripIds :
                 ScheduledNow(t)
                   => (t \in Loaded(p)
                         <=> (trips[t].startTime <= tNow[p] /\ tNow[p] <= trips[t].endTime))
       /\ (tPc[p] = "findMissed" /\ Resumes(p))
            => \A t \in TripIds :
                 ScheduledNow(t) => (t \in Loaded(p) <=> tNow[p] > trips[t].endTime)
       /\ (tPc[p] = "activateSave" /\ Resumes(p) /\ tPc'[p] # "idle")
            => trips'[Head(tQueue[p]).id].status = "active"
       /\ (tPc[p] = "missedSave" /\ Resumes(p))
            => trips'[Head(tQueue[p]).id].status = "missed"]_vars

\* C25: a trip in alert_triggered is not stuck: PATCH /location still accepts a
\* position for it (and a position within destinationToleranceMeters of the
\* destination completes the trip).
C25_AlertedTripTakesPing ==
  \A t \in TripIds :
    (trips[t].status = "alert_triggered" /\ trips[t].isActive)
      => ~LocationPingRefused(trips[t])

\* a pass over these documents changes no stored status: there is none, or
\* the save of the first is rejected and the pass ends there
NothingToDo(found) == found = <<>> \/ PreSaveRejects(Head(found))

\* the documents of the location query that have reached their threshold
TimedOut(found) ==
  SelectSeq(found, LAMBDA d : TimeoutMinutes(d, now) >= d.locationTimeoutMinutes)

\* a scan at this instant finds no trip whose status it would change
Settled ==
  /\ NothingToDo(findOverdueTrips)
  /\ NothingToDo(TimedOut(findTripsNeedingLocationCheck))
  /\ NothingToDo(tripsToActivate(now))
  /\ tripsToActivate(now) = <<>> => NothingToDo(tripsToMarkMissed(now))

\* C26: running the trip scan again at the same now, with no request in
\* between, changes no trip's status: when a scan returns it leaves nothing
\* that a scan at that instant would change, and from such a state no step of
\* a scan changes a stored status.
C26_SecondTickIdempotent ==
  [][\A p \in TripProcs :
       /\ (tPc[p] # "idle" /\ tPc'[p] = "idle") => Settled'
       /\ (Settled /\ Resumes(p))
            => \A t \in TripIds : trips'[t].status = trips[t].status]_vars

\* a second scan is under way at the instant at which the one before it moved
\* a trip to alert_triggered and stored its alert
C26_Witness ==
  \E p \in TripProcs, t \in TripIds :
    /\ tPc[p] = "findMissed" /\ tNow[p] = now /\ tAlerted[p] = <<>>
    /\ trips[t].status = "alert_triggered"
    /\ \E a \in sosAlerts : a.tripId = t /\ a.createdAt = now

\* --------------------------------------- claims on the safe-zone evaluation

\* C27: a status request never reports a trigger while autoSOSEnabled is
\* false; for an enabled user who is not inactive and whose safe location and
\* last known location are both set, it reports location_deviation exactly
\* when the distance between the two is strictly greater than
\* deviationThresholdMeters, and reports that distance.
C27_DeviationExactly ==
  [][sosStatus' # sosStatus
       => /\ ~profile.settings.autoSOSEnabled => ~sosStatus'.shouldTriggerSOS
          /\ (/\ profile.settings.autoSOSEnabled
              /\ ~isInactive(profile)
              /\ profile.defaultLocation # NoLocation
              /\ profile.lastKnownLocation # NoLocation)
               => LET distance ==
                        calculateDistance(profile.defaultLocation.latitude,
                                          profile.defaultLocation.longitude,
                                          profile.lastKnownLocation.latitude,
                                          profile.lastKnownLocation.longitude)
                  IN /\ sosStatus'.shouldTriggerSOS
                          <=> distance > profile.settings.deviationThresholdMeters
                     /\ sosStatus'.shouldTriggerSOS
                          => /\ sosStatus'.sosReason = "location_deviation"
                             /\ sosStatus'.deviationFromSafe = distance]_vars

\* ----------------------------------------- claims on the alert cool-down

C29_NormalClearsKeys ==
  [][\A p \in Procs :
       LET user == Head(sQueue[p])
       IN (/\ sPc[p] = "check"
           /\ sQueue'[p] # sQueue[p]
           /\ ~shouldTriggerAutoSOS(user).shouldTrigger)
            => \A r \in Reasons : <<user.id, r>> \notin processedAlerts']_vars

C31_ArchiveOnlyFinished ==
  [][CleanupCronTick =>
       \A t \in TripIds :
         LET old == trips[t]
             new == trips'[t]
         IN /\ new.status = old.status
            /\ [new EXCEPT !.isActive = old.isActive, !.updatedAt = old.updatedAt] = old
            /\ new.isActive # old.isActive
                 => /\ ~new.isActive
                    /\ old.status \in {"completed", "cancelled"}
                    /\ old.updatedAt <= now - ThirtyDays]_vars

\* C32: when a scan cycle started by the cron tick or by manualSOSCheck
\* returns, after a normal end or after an error, isRunning is false; the
\* flag is never left set while no cycle is in progress.
C32_FlagClearedAfterCycle ==
  [][/\ \A p \in Procs :
          (sKind[p] \in {"main", "manual"} /\ sPc[p] # "idle" /\ sPc'[p] = "idle")
            => ~sosIsRunning'
     /\ sosIsRunning' => CyclesInProgress' # {}]_vars

\* every cycle has returned, the last one after triggerAutoSOS threw: its
\* alert is stored and its key is not marked
C32_Witness ==
  /\ ~sosIsRunning
  /\ CyclesInProgress = {}
  /\ \E a \in ScanAlerts :
       a.createdAt = now /\ AlertKey(a.userId, a.kind) \notin processedAlerts

\* C33: a key is marked only by an evaluation whose triggerAutoSOS returned,
\* so an alert of that user and kind is stored; when triggerAutoSOS throws,
\* before or after the alert was stored, the key stays unmarked, and an
\* evaluation that finds the condition true and the key unmarked triggers.
C33_MarkOnlyAfterSuccess ==
  [][/\ \A k \in processedAlerts' \ processedAlerts :
          /\ \E p \in Procs :
               sPc[p] = "notify" /\ AlertKey(sCur[p].user, sCur[p].reason) = k
          /\ \E a \in ScanAlerts :
               a.userId = k[1] /\ a.kind = k[2] /\ a.createdAt <= now
     /\ \A p \in Procs :
          /\ (CreateAlertFails(p) \/ ContactsFindFails(p))
               => /\ processedAlerts' = processedAlerts
                  /\ AlertKey(sCur[p].user, sCur[p].reason) \notin processedAlerts'
          /\ LET user == Head(sQueue[p])
                 sosCheck == shouldTriggerAutoSOS(user)
             IN (/\ sPc[p] = "check" /\ sPc'[p] # sPc[p]
                 /\ sosCheck.shouldTrigger
                 /\ AlertKey(user.id, sosCheck.reason) \notin processedAlerts)
                  => sPc'[p] = "create"]_vars

\* an evaluation triggers again for a user and kind whose alert of the same
\* instant is stored and whose key was never marked
C33_Witness ==
  \E p \in Procs, a \in ScanAlerts :
    /\ sPc[p] = "create"
    /\ a.userId = sCur[p].user /\ a.kind = sCur[p].reason
    /\ a.createdAt = now
    /\ AlertKey(a.userId, a.kind) \notin processedAlerts

\* the safe location or the last known location has a coordinate that is 0
HasZeroCoordinate(user) ==
  \E loc \in {user.defaultLocation, user.lastKnownLocation} :
    loc.latitude = 0 \/ loc.longitude = 0

C34_NoDistance ==
  HasZeroCoordinate(profile)
    => /\ calculateDeviationFromDefault(profile) = NoDeviation
       /\ ~hasLocationDeviated(profile)
       /\ shouldTriggerAutoSOS(Evaluated(profile)).reason # "location_deviation"

C34_NotReported ==
  (sosStatus' # sosStatus /\ HasZeroCoordinate(profile))
    => /\ sosStatus'.deviationFromSafe = NoDeviation
       /\ sosStatus'.sosReason # "location_deviation"

\* C34: for a user whose safe location or last known location has a latitude
\* or longitude of exactly 0, calculateDeviationFromDefault returns no
\* distance and no location_deviation trigger is reported, however far apart
\* the two points are.
C34_ZeroIsAbsent == []C34_NoDistance /\ [][C34_NotReported]_vars

\* a status request answered for an enabled, active user whose safe location
\* is on the equator and who is 999 m away from it: nothing to report
C34_Witness ==
  /\ sosStatus.asked /\ sosStatus.autoSOSEnabled /\ sosStatus.isActive
  /\ ~sosStatus.hasDefaultLocation /\ sosStatus.hasLastKnownLocation
  /\ ~sosStatus.shouldTriggerSOS
  /\ sosStatus.deviationFromSafe = NoDeviation
  /\ profile.settings.autoSOSEnabled /\ ~isInactive(profile)
  /\ profile.defaultLocation = Equator
  /\ profile.lastKnownLocation = [latitude |-> 9, longitude |-> 1]
  /\ calculateDistance(0, 1, 9, 1) > profile.settings.deviationThresholdMeters

\* the stored document of the alert a, after the step
After(a) == {b \in sosAlerts' : AlertId(b) = AlertId(a)}

\* C35: an alert is cancelled only by a request of its owner and only while
\* its status is active; a cancelled alert keeps its status, its cancelledAt
\* and its cancelReason, and a cancel request that finds it cancelled is
\* answered not-found.
C35_CancelOnce ==
  [][\A a \in sosAlerts :
       /\ a.status = "cancelled"
            => \E b \in After(a) :
                 /\ b.status = "cancelled"
                 /\ b.cancelledAt = a.cancelledAt
                 /\ b.cancelReason = a.cancelReason
       /\ \A b \in After(a) :
            (b.status = "cancelled" /\ a.status # "cancelled")
              => /\ a.status = "active"
                 /\ \E req \in cancelReqs \ cancelReqs' :
                      req.by = a.userId /\ AlertId(req.alert) = AlertId(a)
       /\ \A req \in cancelReqs' \ cancelReqs :
            AlertId(req.alert) = AlertId(a) => a.status = "active" /\ req.by = a.userId]_vars

\* the OTP mailed as the i-th one
Successes(i) == {r \in otpResponses : r.status = "verified" /\ r.issue = i}

\* the verify requests answered 'Invalid OTP' for the i-th OTP before the
\* request of response r arrived
WrongBefore(r) ==
  {w \in otpResponses : w.status = "invalid" /\ w.issue = r.issue /\ w.seq <= r.answered}

\* C36: for one issued OTP at most one verify request is answered with
\* success, also when two requests with the right code overlap; and no
\* request that arrives after three requests with a wrong code were answered,
\* or at or after the expiry of the OTP, is answered with success
C36_OneSuccessPerOtp ==
  /\ \A i \in 1..Len(otpMails) : Cardinality(Successes(i)) <= 1
  /\ \A r \in otpResponses :
       r.status = "verified"
         => /\ Cardinality(WrongBefore(r)) < MaxAttempts
            /\ r.arrivedAt < otpMails[r.issue].expiresAt

\* the cron tasks of a kind of the SOS job that are scheduled
ScheduledTasks(name) == Orphaned(name) + orphans[name]

\* C37: whatever start and stop calls were made on either monitoring service,
\* at most one cron task of each kind is scheduled, a start of the trip
\* service schedules tasks only where none is scheduled, and right after a
\* stop no cron task of the stopped service is scheduled
C37_NoStrayCronJob ==
  /\ [](\A name \in {"main-sos-check", "cleanup"} : ScheduledTasks(name) <= 1)
  /\ [](tripIsRunning <=> (monitoringJob = "scheduled" /\ cleanupJob = "scheduled"))
  /\ [](~tripIsRunning <=> (monitoringJob = "null" /\ cleanupJob = "null"))
  /\ [][/\ StopMonitoring
             => \A name \in {"main-sos-check", "cleanup"} : ScheduledTasks(name)' = 0
        /\ TripStop => monitoringJob' = "null" /\ cleanupJob' = "null"]_vars
\* C20: auto SOS is disabled by default: a user who never sent a settings
\* request enabling it is not selected by the scan and gets no automatic alert.
C20_DisabledByDefault ==
  \A a \in sosAlerts : (a.userId = ProfileUser /\ a.source = "scan") => everEnabled

====
